---- MODULE Spec2Model ----
(***************************************************************************)
(* State-machine model of the chat-api services (users, channels, topics, *)
(* messages, follows): every action handler is split at its suspension    *)
(* points (storage operations, remote calls, event broadcast), so that    *)
(* concurrent requests interleave exactly where the promise chains of the *)
(* source yield.                                                          *)
(*                                                                         *)
(* Four specifications share the variables:                               *)
(*   SpecFollows  the follows service: concurrent add / delete            *)
(*   SpecUsers    the users service: concurrent create                    *)
(*   SpecTokens   the users service: token issuance and resolution, the   *)
(*                one-hour result cache and the clock                     *)
(*   SpecCache    channels and messages with the read cache and the bus   *)
(***************************************************************************)
EXTENDS Integers, Sequences, FiniteSets, TLC

VARIABLES
    users,      \* users collection: set of user documents
    channels,   \* channels collection: set of channel documents
    topics,     \* topics collection: set of topic documents
    messages,   \* messages collection: set of message documents
    follows,    \* follows collection: set of follow documents
    nextId,     \* next document identifier handed out by the storage
    cache,      \* the broker's cacher: set of entries [svc, action, key, val, at, ttl]
    bus,        \* kind-changed notifications in flight: set of <<kind, service>>
    deployed,   \* the services registered with the broker
    clock,      \* wall-clock time in seconds
    issued,     \* the tokens clients hold: those returned by users.create
    seen,       \* history: the last list result computed and the writes since
    pc,         \* per request slot: the suspension point its handler is at
    call,       \* per request slot: the action called and its local variables
    res,        \* per request slot: the outcome of its last completed call
    hist,       \* per request slot: what the current/last call did (history)
    overlapped  \* history: TRUE once two calls have ever been in flight together

vars == <<users, channels, topics, messages, follows, nextId, cache, bus, deployed,
          clock, issued, seen, pc, call, res, hist, overlapped>>

storeVars == <<users, channels, topics, messages, follows, nextId>>

(***************************************************************************)
(* Bounds of the model.                                                   *)
(***************************************************************************)
MaxFollows == 3

\* The request slots: requests that can be in flight at the same time.
Procs == {"p1", "p2"}

Services == {"users", "channels", "topics", "messages", "follows"}
Kinds == {"users", "channels", "topics", "messages", "follows"}

None == "none"

(***************************************************************************)
(* Request slots.                                                         *)
(***************************************************************************)
NoCall == [action |-> None]
NoRes == [err |-> "nocall"]
NoHist == [inserted |-> 0, removed |-> 0, emitted |-> 0]
NoSeen == [svc |-> None]

Ok(v) == [err |-> None, code |-> 200, data |-> {}, val |-> v]
\* MoleculerClientError(message, code = 400, type, data)
ClientError(msg, code, data) == [err |-> msg, code |-> code, data |-> data, val |-> {}]

Idle(p) == pc[p] = "idle"
Busy == {p \in Procs : pc[p] # "idle"}

\* A request arrives in slot p: the slot's history is reset, and the run is
\* marked overlapped when another request is still in flight.
Begin(p, c, at) ==
    /\ Idle(p)
    /\ pc' = [pc EXCEPT ![p] = at]
    /\ call' = [call EXCEPT ![p] = c]
    /\ res' = [res EXCEPT ![p] = NoRes]
    /\ hist' = [hist EXCEPT ![p] = NoHist]
    /\ overlapped' = (overlapped \/ Busy # {})

\* The handler's promise settles: the slot becomes idle and holds the outcome.
Finish(p, r) ==
    /\ pc' = [pc EXCEPT ![p] = "idle"]
    /\ res' = [res EXCEPT ![p] = r]

Goto(p, at) == pc' = [pc EXCEPT ![p] = at]

(***************************************************************************)
(* The invalidation bus.  entityChanged broadcasts "cache.clean.<kind>":  *)
(* the handlers of the emitting service run inside the broadcast, the     *)
(* other registered services receive the notification later.              *)
(***************************************************************************)
\* Flush with the pattern "*": the entries of every namespace go.
FlushEverything(c, svc) == {}

\* cacher.clean(`${this.name}.*`): every entry of the service's namespace goes.
Flush(c, svc) == {e \in c : e.svc # svc}

\* The events blocks of the services.
UsersEvents == {"channels", "users", "topics", "follows"}
ChannelsEvents == {"channels", "users", "topics", "follows"}
TopicsEvents == {"channels", "users", "topics", "follows"}
MessagesEvents == {"articles", "users", "comments", "follows", "favorites"}
FollowsEvents == {"channels", "users", "topics", "follows"}

\* DbMixin(collection) subscribes the service to its own collection's event.
MixinEvents(svc) == {svc}

Handles(svc) ==
    MixinEvents(svc) \cup
        CASE svc = "users" -> UsersEvents
          [] svc = "channels" -> ChannelsEvents
          [] svc = "topics" -> TopicsEvents
          [] svc = "messages" -> MessagesEvents
          [] svc = "follows" -> FollowsEvents

\* What a service does with a notification: flush its namespace if it has a
\* handler for the kind, nothing otherwise.
OnEvent(c, kind, svc) == IF kind \in Handles(svc) THEN Flush(c, svc) ELSE c

\* this.entityChanged(type, json, ctx) of service svc: broadcast of the
\* service's own kind.
EntityChanged(p, svc) ==
    /\ cache' = IF svc \in deployed THEN OnEvent(cache, svc, svc) ELSE cache
    /\ bus' = bus \cup {<<svc, s>> : s \in deployed \ {svc}}
    /\ hist' = [hist EXCEPT ![p].emitted = @ + 1]

\* A notification in flight reaches a service.
Deliver(kind, svc) ==
    /\ <<kind, svc>> \in bus
    /\ bus' = bus \ {<<kind, svc>>}
    /\ cache' = OnEvent(cache, kind, svc)
    /\ UNCHANGED <<storeVars, deployed, clock, issued, seen, pc, call, res, hist, overlapped>>

(***************************************************************************)
(* follows service (src/services/follow.service.ts).                      *)
(***************************************************************************)
ChannelIds == {"c1", "c2"}
UserIds == {"u1", "u2"}

\* adapter.findOne(query): the first matching document in natural (insertion)
\* order, or nothing; the outcome is a set of at most one document.
FindOne(matching) ==
    IF matching = {} THEN {}
    ELSE {CHOOSE d \in matching : \A e \in matching : d.id <= e.id}

findByChannelAndUser(channel, user) ==
    FindOne({f \in follows : f.channel = channel /\ f.user = user})

\* The model accepts a follows.add only while fewer than MaxFollows documents
\* have been or are about to be inserted.
FollowsRoom ==
    nextId + Cardinality({p \in Procs : pc[p] \in {"add.find", "add.insert"}})
        <= MaxFollows

\* follows.add is called with { channel, user }.
AddCall(p, channel, user) ==
    /\ FollowsRoom
    /\ Begin(p, [action |-> "follows.add", channel |-> channel, user |-> user,
                 item |-> {}, json |-> {},
                 pre |-> findByChannelAndUser(channel, user) # {}], "add.find")
    /\ UNCHANGED <<storeVars, cache, bus, deployed, clock, issued, seen>>

\* AddFind without the rejection: the insert follows whatever the probe found.
AddFindNoReject(p) ==
    /\ pc[p] = "add.find"
    /\ call' = [call EXCEPT ![p].item =
            findByChannelAndUser(call[p].channel, call[p].user)]
    /\ Goto(p, "add.insert")
    /\ UNCHANGED <<storeVars, cache, bus, deployed, clock, issued, seen, res, hist, overlapped>>

\* findByChannelAndUser(...).then(item => ...): reject when a record exists.
AddFind(p) ==
    /\ pc[p] = "add.find"
    /\ LET item == findByChannelAndUser(call[p].channel, call[p].user) IN
        /\ call' = [call EXCEPT ![p].item = item]
        /\ IF item # {}
             THEN Finish(p, ClientError("Channel has already joined", 400, {}))
             ELSE Goto(p, "add.insert") /\ UNCHANGED res
    /\ UNCHANGED <<storeVars, cache, bus, deployed, clock, issued, seen, hist, overlapped>>

\* this.adapter.insert({ channel, user, createdAt })
AddInsert(p) ==
    /\ pc[p] = "add.insert"
    /\ follows' = follows \cup
            {[id |-> nextId, channel |-> call[p].channel, user |-> call[p].user]}
    /\ nextId' = nextId + 1
    /\ call' = [call EXCEPT ![p].json =
            {[id |-> nextId, channel |-> call[p].channel, user |-> call[p].user]}]
    /\ hist' = [hist EXCEPT ![p].inserted = @ + 1]
    /\ Goto(p, "add.changed")
    /\ UNCHANGED <<users, channels, topics, messages, cache, bus, deployed, clock, issued, seen, res,
                   overlapped>>

\* .then(json => this.entityChanged("created", json, ctx).then(() => json))
AddEntityChanged(p) ==
    /\ pc[p] = "add.changed"
    /\ EntityChanged(p, "follows")
    /\ Finish(p, Ok(call[p].json))
    /\ UNCHANGED <<storeVars, deployed, clock, issued, seen, call, overlapped>>

\* follows.delete is called with { channel, user }.
DeleteCall(p, channel, user) ==
    /\ Begin(p, [action |-> "follows.delete", channel |-> channel, user |-> user,
                 item |-> {}, json |-> {},
                 pre |-> findByChannelAndUser(channel, user) # {}], "delete.find")
    /\ UNCHANGED <<storeVars, cache, bus, deployed, clock, issued, seen>>

\* DeleteFind without the rejection: the removal follows whatever the probe found.
DeleteFindNoReject(p) ==
    /\ pc[p] = "delete.find"
    /\ call' = [call EXCEPT ![p].item =
            findByChannelAndUser(call[p].channel, call[p].user)]
    /\ Goto(p, "delete.remove")
    /\ UNCHANGED <<storeVars, cache, bus, deployed, clock, issued, seen, res, hist, overlapped>>

\* findByChannelAndUser(...).then(item => ...): reject when no record exists.
DeleteFind(p) ==
    /\ pc[p] = "delete.find"
    /\ LET item == findByChannelAndUser(call[p].channel, call[p].user) IN
        /\ call' = [call EXCEPT ![p].item = item]
        /\ IF item = {}
             THEN Finish(p, ClientError("Channel has not joined yet", 400, {}))
             ELSE Goto(p, "delete.remove") /\ UNCHANGED res
    /\ UNCHANGED <<storeVars, cache, bus, deployed, clock, issued, seen, hist, overlapped>>

\* this.adapter.removeById(item._id): removes the document if it is still there.
DeleteRemove(p) ==
    /\ pc[p] = "delete.remove"
    /\ follows' = {f \in follows : \A i \in call[p].item : f.id # i.id}
    /\ call' = [call EXCEPT ![p].json = follows \ follows']
    /\ hist' = [hist EXCEPT ![p].removed = @ + Cardinality(follows \ follows')]
    /\ Goto(p, "delete.changed")
    /\ UNCHANGED <<users, channels, topics, messages, nextId, cache, bus, deployed, clock, issued, seen,
                   res, overlapped>>

\* .then(json => this.entityChanged("removed", json, ctx).then(() => json))
DeleteEntityChanged(p) ==
    /\ pc[p] = "delete.changed"
    /\ EntityChanged(p, "follows")
    /\ Finish(p, Ok(call[p].json))
    /\ UNCHANGED <<storeVars, deployed, clock, issued, seen, call, overlapped>>

InitSlots ==
    /\ pc = [p \in Procs |-> "idle"]
    /\ call = [p \in Procs |-> NoCall]
    /\ res = [p \in Procs |-> NoRes]
    /\ hist = [p \in Procs |-> NoHist]
    /\ overlapped = FALSE

InitFollows ==
    /\ users = {}
    /\ channels = {}
    /\ topics = {}
    /\ messages = {}
    /\ follows = {}
    /\ nextId = 1
    /\ cache = {}
    /\ bus = {}
    /\ deployed = {"follows"}
    /\ clock = 0
    /\ issued = {}
    /\ seen = NoSeen
    /\ InitSlots

NextFollows ==
    \/ \E p \in Procs, c \in ChannelIds, u \in UserIds : AddCall(p, c, u)
    \/ \E p \in Procs : AddFind(p)
    \/ \E p \in Procs : AddInsert(p)
    \/ \E p \in Procs : AddEntityChanged(p)
    \/ \E p \in Procs, c \in ChannelIds, u \in UserIds : DeleteCall(p, c, u)
    \/ \E p \in Procs : DeleteFind(p)
    \/ \E p \in Procs : DeleteRemove(p)
    \/ \E p \in Procs : DeleteEntityChanged(p)

SpecFollows == InitFollows /\ [][NextFollows]_vars

(***************************************************************************)
(* users service (src/unnamed/part_000).                                  *)
(***************************************************************************)
MaxUsers == 3
MaxHalfHours == 2

Usernames == {"alice", "bob"}
Emails == {"a@x.com", "b@x.com"}

TokenLifeDays == 60
TokenLife == TokenLifeDays * 24 * 60 * 60
\* resolveToken: cache: { keys: ["token"], ttl: 60 * 60 }
ResolveTtl == 60 * 60
HalfHour == 30 * 60

\* The moments the clock is sampled at: half hours from the start, and the same
\* a token lifetime later.
Moments == {a * HalfHour + b * TokenLife : a \in 0..MaxHalfHours, b \in 0..1}

\* Expired with the ttl never running out: an entry stays until it is flushed.
ExpiredNever(e, now) == FALSE

\* An entry with a ttl is gone once the ttl has run out.
Expired(e, now) == e.ttl > 0 /\ now > e.at + e.ttl

\* Time passes between calls (a call is short against the sampled moments);
\* the cacher's timer drops the entries whose ttl has run out.
Tick(m) ==
    /\ Busy = {}
    /\ m \in Moments
    /\ m > clock
    /\ clock' = m
    /\ cache' = {e \in cache : ~Expired(e, m)}
    /\ UNCHANGED <<storeVars, bus, deployed, issued, seen, pc, call, res, hist, overlapped>>

NoToken == [id |-> 0, username |-> None, exp |-> 0, sig |-> None]

\* jwt.sign({ id, username, exp: now + 60 days }, JWT_SECRET)
generateJWT(user, now) ==
    [id |-> user.id, username |-> user.username, exp |-> now + TokenLife,
     sig |-> "JWT_SECRET"]

\* A token whose signature or payload was altered after signing.
Tampered(t) == {[t EXCEPT !.sig = "forged"],
                [t EXCEPT !.exp = t.exp + TokenLife, !.sig = "forged"]}

\* jwt.verify(token, JWT_SECRET): the error, or "none" and the payload is trusted.
Verify(token, now) ==
    IF token.sig # "JWT_SECRET" THEN "JsonWebTokenError"
    ELSE IF now >= token.exp THEN "TokenExpiredError"
    ELSE None

\* transformEntity(user, withToken, token): user.token = token || generateJWT(user)
\* return { user }
transformEntity(user, withToken, token, now) ==
    [user |->
        [id |-> user.id, username |-> user.username, email |-> user.email,
         token |-> IF withToken
                     THEN (IF token # NoToken THEN token ELSE generateJWT(user, now))
                     ELSE NoToken]]

UsersRoom ==
    nextId + Cardinality({p \in Procs :
        pc[p] \in {"create.username", "create.email", "create.insert"}}) <= MaxUsers

\* users.create is called with { user: { username, email, password } }; the
\* caller's ctx.meta.token is the token of its own session, if any.
CreateCall(p, username, email, token) ==
    /\ UsersRoom
    /\ Begin(p, [action |-> "users.create", username |-> username, email |-> email,
                 token |-> token, doc |-> {},
                 preUsername |-> \E u \in users : u.username = username,
                 preEmail |-> \E u \in users : u.email = email], "create.username")
    /\ UNCHANGED <<storeVars, cache, bus, deployed, clock, issued, seen>>

\* CreateFindUsername probing nothing: the email probe follows unconditionally.
CreateFindUsernameNoReject(p) ==
    /\ pc[p] = "create.username"
    /\ Goto(p, "create.email")
    /\ UNCHANGED <<storeVars, cache, bus, deployed, clock, issued, seen, call, res, hist, overlapped>>

\* adapter.findOne({ username }).then(found => reject 422 "username is exist")
CreateFindUsername(p) ==
    /\ pc[p] = "create.username"
    /\ IF FindOne({u \in users : u.username = call[p].username}) # {}
         THEN Finish(p, ClientError("Username is exist!", 422,
                        {[field |-> "username", message |-> "is exist"]}))
         ELSE Goto(p, "create.email") /\ UNCHANGED res
    /\ UNCHANGED <<storeVars, cache, bus, deployed, clock, issued, seen, call, hist, overlapped>>

\* CreateFindEmail probing nothing: the insert follows unconditionally.
CreateFindEmailNoReject(p) ==
    /\ pc[p] = "create.email"
    /\ Goto(p, "create.insert")
    /\ UNCHANGED <<storeVars, cache, bus, deployed, clock, issued, seen, call, res, hist, overlapped>>

\* adapter.findOne({ email }).then(found => reject 422 "email is exist")
CreateFindEmail(p) ==
    /\ pc[p] = "create.email"
    /\ IF FindOne({u \in users : u.email = call[p].email}) # {}
         THEN Finish(p, ClientError("Email is exist!", 422,
                        {[field |-> "email", message |-> "is exist"]}))
         ELSE Goto(p, "create.insert") /\ UNCHANGED res
    /\ UNCHANGED <<storeVars, cache, bus, deployed, clock, issued, seen, call, hist, overlapped>>

\* adapter.insert(entity)
CreateInsert(p) ==
    /\ pc[p] = "create.insert"
    /\ LET doc == [id |-> nextId, username |-> call[p].username,
                   email |-> call[p].email] IN
        /\ users' = users \cup {doc}
        /\ call' = [call EXCEPT ![p].doc = {doc}]
    /\ nextId' = nextId + 1
    /\ hist' = [hist EXCEPT ![p].inserted = @ + 1]
    /\ Goto(p, "create.changed")
    /\ UNCHANGED <<channels, topics, messages, follows, cache, bus, deployed, clock, issued, seen, res,
                   overlapped>>

\* .then(doc => transformDocuments).then(user => transformEntity(user, true,
\* ctx.meta.token)).then(json => entityChanged("created", json, ctx).then(() => json))
CreateEntityChanged(p) ==
    /\ pc[p] = "create.changed"
    /\ EntityChanged(p, "users")
    /\ \E doc \in call[p].doc :
        LET json == transformEntity(doc, TRUE, call[p].token, clock) IN
            /\ Finish(p, Ok(json))
            /\ issued' = issued \cup {json.user.token}
    /\ UNCHANGED <<storeVars, deployed, clock, seen, call, overlapped>>

\* users.resolveToken is called with { token }.
ResolveCall(p, token) ==
    /\ Begin(p, [action |-> "users.resolveToken", token |-> token, at |-> clock,
                 cached |-> FALSE], "resolve.verify")
    /\ UNCHANGED <<storeVars, cache, bus, deployed, clock, issued, seen>>

\* The cacher's entry for a call, if it holds one that has not run out.
Cached(svc, action, key) ==
    {e \in cache : e.svc = svc /\ e.action = action /\ e.key = key
                   /\ ~Expired(e, clock)}

\* cache: { keys: ["token"] }: a held result is returned without running the
\* handler; otherwise jwt.verify decides whether the handler goes on.
ResolveVerify(p) ==
    /\ pc[p] = "resolve.verify"
    /\ LET hit == Cached("users", "resolveToken", call[p].token)
           err == Verify(call[p].token, clock) IN
        IF hit # {}
          THEN /\ \E e \in hit : Finish(p, Ok(e.val))
               /\ call' = [call EXCEPT ![p].cached = TRUE]
          ELSE IF err # None
            THEN Finish(p, ClientError(err, 500, {})) /\ UNCHANGED call
            ELSE Goto(p, "resolve.get") /\ UNCHANGED <<res, call>>
    /\ UNCHANGED <<storeVars, cache, bus, deployed, clock, issued, seen, hist, overlapped>>

\* this.getById(id): the document with that identifier, or nothing.
getById(id) == {u \in users : u.id = id}

\* What users.resolveToken answers for a token when run now without
\* interruption: the held result if the cacher has one, else the handler's.
resolveToken(token) ==
    LET hit == Cached("users", "resolveToken", token) IN
        IF hit # {} THEN UNION {e.val : e \in hit}
        ELSE IF Verify(token, clock) # None THEN {}
        ELSE getById(token.id)

\* if (decoded.id) return this.getById(decoded.id); the result is cached for
\* one hour under the token.
ResolveGet(p) ==
    /\ pc[p] = "resolve.get"
    /\ LET val == getById(call[p].token.id) IN
        /\ cache' = {e \in cache : ~(e.svc = "users" /\ e.action = "resolveToken"
                                     /\ e.key = call[p].token)}
                    \cup {[svc |-> "users", action |-> "resolveToken",
                           key |-> call[p].token, val |-> val, at |-> clock,
                           ttl |-> ResolveTtl]}
        /\ Finish(p, Ok(val))
    /\ UNCHANGED <<storeVars, bus, deployed, clock, issued, seen, call, hist, overlapped>>

InitUsers ==
    /\ users = {}
    /\ channels = {}
    /\ topics = {}
    /\ messages = {}
    /\ follows = {}
    /\ nextId = 1
    /\ cache = {}
    /\ bus = {}
    /\ deployed = {"users"}
    /\ clock = 0
    /\ issued = {}
    /\ seen = NoSeen
    /\ InitSlots

\* Concurrent registrations: callers without a session.
NextUsers ==
    \/ \E p \in Procs, n \in Usernames, e \in Emails : CreateCall(p, n, e, NoToken)
    \/ \E p \in Procs : CreateFindUsername(p)
    \/ \E p \in Procs : CreateFindEmail(p)
    \/ \E p \in Procs : CreateInsert(p)
    \/ \E p \in Procs : CreateEntityChanged(p)

SpecUsers == InitUsers /\ [][NextUsers]_vars

\* One client at a time, with or without a session, while time passes.
Client == "p1"

NextTokens ==
    \/ \E n \in Usernames, e \in Emails, t \in issued \cup {NoToken} :
        CreateCall(Client, n, e, t)
    \/ CreateFindUsername(Client)
    \/ CreateFindEmail(Client)
    \/ CreateInsert(Client)
    \/ CreateEntityChanged(Client)
    \/ \E t \in issued : ResolveCall(Client, t)
    \/ \E t \in issued : \E f \in Tampered(t) : ResolveCall(Client, f)
    \/ ResolveVerify(Client)
    \/ ResolveGet(Client)
    \/ \E m \in Moments : Tick(m)

SpecTokens == InitUsers /\ [][NextTokens]_vars


(***************************************************************************)
(* channels service (src/services/user.service.ts, second half) and       *)
(* messages service (src/services/message.service.ts, first half): create *)
(* and the cached list.                                                   *)
(***************************************************************************)
MaxDocs == 1
MaxCached == 1

Alice == [id |-> 1, username |-> "alice", email |-> "a@x.com"]
Bob == [id |-> 2, username |-> "bob", email |-> "b@x.com"]

\* A numeric parameter the caller left out.
NoNumber == -1
DefaultLimit == 20

Min(a, b) == IF a < b THEN a ELSE b

\* sort: ["-createdAt"]: newest first; documents are created in id order.
RECURSIVE Newest(_)
Newest(docs) ==
    IF docs = {} THEN <<>>
    ELSE LET d == CHOOSE x \in docs : \A y \in docs : y.id <= x.id
         IN <<d>> \o Newest(docs \ {d})

\* adapter.find({ limit, offset, sort, query }): the page of the matching documents.
Find(docs, limit, offset) ==
    SubSeq(Newest(docs), offset + 1, Min(Cardinality(docs), offset + limit))

\* query: {} selects everything, query.creator = id the documents of that creator.
Matching(docs, query) == {d \in docs : query = {} \/ d.creator \in query}

\* const limit = ctx.params.limit ? Number(ctx.params.limit) : 20;
Limit(limit) == IF limit = NoNumber \/ limit = 0 THEN DefaultLimit ELSE limit
\* const offset = ctx.params.offset ? Number(ctx.params.offset) : 0;
Offset(offset) == IF offset = NoNumber THEN 0 ELSE offset

\* The caller of a cached action: ctx.meta.token and ctx.params.
NoCaller == [token |-> NoToken, params |-> [none |-> TRUE]]
Caller(c) == [token |-> c.token, params |-> c.params]

\* ListKey without "#token": the key is made of the parameters alone.
ListKeyNoToken(c) == <<c.creator, c.limit, c.offset>>

\* cache: { keys: ["#token", "creator", "limit", "offset"] }
ListKey(c) == <<c.token, c.creator, c.limit, c.offset>>

\* ctx.call("users.find", { query: { username } })
UsersFind(username) == {u \in users : u.username = username}

\* The actions and parameters whose results the cacher holds, under any token.
Held == {<<e.svc, e.action, e.by.params>> : e \in cache}

\* The model starts a read that will be computed only while the cacher holds
\* the results of fewer than MaxCached actions and parameters.
ReadRoom(svc, action, params) ==
    Cardinality(Held) < MaxCached \/ <<svc, action, params>> \in Held

CacheRoom(svc, c) ==
    ReadRoom(svc, "list", [creator |-> c.creator, limit |-> c.limit, offset |-> c.offset])

\* The model accepts a create only while fewer than MaxDocs channels and
\* messages have been or are about to be inserted.
DocsRoom ==
    Cardinality(channels) + Cardinality(messages)
        + Cardinality({p \in Procs : pc[p] \in {"channels.validate", "channels.insert",
                                                "messages.validate", "messages.insert"}})
        < MaxDocs

ListCall(p, action, token, creator, limit, offset, at) ==
    Begin(p, [action |-> action, token |-> token, creator |-> creator,
              limit |-> limit, offset |-> offset,
              params |-> [creator |-> creator, limit |-> limit, offset |-> offset],
              query |-> {}, rows |-> {}, count |-> {}, cached |-> FALSE,
              populated |-> {}, from |-> NoCaller, prev |-> NoSeen], at)

\* ---- channels --------------------------------------------------------------
\* entityValidator: { title: "string|min:3", description: "string|min:3" }
ChannelObjects == {[title |-> "General", description |-> "talk"],
                   [title |-> "ab", description |-> "talk"]}
\* The characters of the titles callers send.
Chars(t) ==
    CASE t = "General" -> <<"G", "e", "n", "e", "r", "a", "l">>
      [] t = "Welcome" -> <<"W", "e", "l", "c", "o", "m", "e">>
      [] t = "My Room" -> <<"M", "y", " ", "R", "o", "o", "m">>
      [] t = "ab" -> <<"a", "b">>
TitleLen(t) == Len(Chars(t))
ValidChannel(e) == TitleLen(e.title) >= 3

\* lower: true
Lower(ch) ==
    CASE ch = "G" -> "g" [] ch = "W" -> "w" [] ch = "M" -> "m" [] ch = "R" -> "r"
      [] OTHER -> ch

\* slug(title, { lower: true }): spaces become hyphens, letters lower case.
Slug(title) ==
    [i \in 1..Len(Chars(title)) |->
        IF Chars(title)[i] = " " THEN "-" ELSE Lower(Chars(title)[i])]

\* The radix of toString(36) and of Math.pow(36, 6).
Radix == 36
\* 36^3: a number below 36^6 is written <<hi, lo>> for hi * 36^3 + lo.
Cube == Radix * Radix * Radix
\* 2^31 and 2^32 in that notation.
Two31 == <<46028, 1280>>
Two32 == <<92056, 2560>>

Less(v, w) == v[1] < w[1] \/ (v[1] = w[1] /\ v[2] < w[2])

\* x | 0 for an integer 0 <= x < 36^6: ToInt32 keeps x below 2^31 and maps
\* x >= 2^31 to x - 2^32, a negative number of magnitude 2^32 - x.
ToInt32(v) ==
    IF Less(v, Two31)
      THEN [neg |-> FALSE, hi |-> v[1], lo |-> v[2]]
      ELSE LET borrow == IF v[2] > Two32[2] THEN 1 ELSE 0 IN
           [neg |-> TRUE, hi |-> Two32[1] - v[1] - borrow,
            lo |-> Two32[2] - v[2] + borrow * Cube]

\* The characters of the base-36 digits.
Digits36 ==
    <<"0", "1", "2", "3", "4", "5", "6", "7", "8", "9", "a", "b", "c", "d", "e", "f",
      "g", "h", "i", "j", "k", "l", "m", "n", "o", "p", "q", "r", "s", "t", "u", "v",
      "w", "x", "y", "z">>

\* The three base-36 digits of a number below 36^3.
Digits3(n) == <<n \div (Radix * Radix), (n \div Radix) % Radix, n % Radix>>

\* No leading zeros, one digit at least.
RECURSIVE Strip(_)
Strip(ds) == IF Len(ds) > 1 /\ ds[1] = 0 THEN Strip(Tail(ds)) ELSE ds

\* n.toString(36): a minus sign for a negative number, then the digits of its
\* magnitude without leading zeros.
toString36(n) ==
    LET ds == Strip(Digits3(n.hi) \o Digits3(n.lo))
        body == [i \in 1..Len(ds) |-> Digits36[ds[i] + 1]] IN
        IF n.neg THEN <<"-">> \o body ELSE body

\* ((Math.random() * Math.pow(36, 6)) | 0).toString(36) when
\* Math.random() * 36^6 has the integer part v.
Suffix(v) == toString36(ToInt32(v))

\* Two outcomes of Math.random() * 36^6: those of the suffixes 1z141z, k3x9q0.
Randoms == {<<2557, 5255>>, <<26061, 12600>>}
Suffixes == {Suffix(v) : v \in Randoms}

\* A slug that no stored channel has.
NoSlug == <<Slug("General"), <<"0", "0", "0", "0", "0", "0">>>>

\* ChannelCreator without the fields parameter: users.get answers with every
\* response field of the users service.
ChannelCreatorAllFields(id) == getById(id)

\* populates.creator: users.get with fields username, bio, image.
ChannelCreator(id) == {[username |-> u.username] : u \in getById(id)}

\* channels.create is called with { channel } by the logged-in user.
ChannelsCreateStart(p, channel, user, token) ==
    /\ user \in users
    /\ Begin(p, [action |-> "channels.create", channel |-> channel,
                 user |-> user, token |-> token, doc |-> {}, json |-> {}],
             "channels.validate")
    /\ UNCHANGED <<storeVars, cache, bus, deployed, clock, issued, seen>>

ChannelsCreateCall(p, channel, user, token) ==
    /\ DocsRoom
    /\ ChannelsCreateStart(p, channel, user, token)

\* this.validateEntity(entity)
ChannelsValidate(p) ==
    /\ pc[p] = "channels.validate"
    /\ IF ValidChannel(call[p].channel)
         THEN Goto(p, "channels.insert") /\ UNCHANGED res
         ELSE Finish(p, ClientError("Entity validation error!", 422, {}))
    /\ UNCHANGED <<storeVars, cache, bus, deployed, clock, issued, seen, call, hist,
                   overlapped>>

\* entity.f = v for every field f of fields, the client's own value of f kept.
AssignKept(entity, fields) == entity @@ fields

\* entity.f = v for every field f of fields: an assignment replaces whatever
\* value the object the client sent carried for f.
Assign(entity, fields) == fields @@ entity

\* The history of an insert: the document joins those persisted since the last
\* list of the service.
Inserted(svc, doc) ==
    IF seen.svc = svc THEN [seen EXCEPT !.since = @ \cup {doc}] ELSE seen

\* entity.slug = ...; entity.creator = user._id; this.adapter.insert(entity)
ChannelsInsert(p) ==
    /\ pc[p] = "channels.insert"
    /\ \E r \in Suffixes :
        LET doc == Assign(call[p].channel,
                          [id |-> nextId,
                           slug |-> <<Slug(call[p].channel.title), r>>,
                           creator |-> call[p].user.id])
        IN  /\ channels' = channels \cup {doc}
            /\ call' = [call EXCEPT ![p].doc = {doc}]
            /\ seen' = Inserted("channels", doc)
    /\ nextId' = nextId + 1
    /\ hist' = [hist EXCEPT ![p].inserted = @ + 1]
    /\ Goto(p, "channels.populate")
    /\ UNCHANGED <<users, topics, messages, follows, cache, bus, deployed, clock, issued,
                   res, overlapped>>

\* transformDocuments(ctx, { populate: ["creator"] }, doc), transformResult
ChannelsPopulate(p) ==
    /\ pc[p] = "channels.populate"
    /\ call' = [call EXCEPT ![p].json =
            {[d EXCEPT !.creator = ChannelCreator(d.creator)] : d \in call[p].doc}]
    /\ Goto(p, "channels.changed")
    /\ UNCHANGED <<storeVars, cache, bus, deployed, clock, issued, seen, res, hist,
                   overlapped>>

\* The users.get call of the populate fails (the users service does not answer):
\* the chain rejects with the call's error and entityChanged is never reached.
ChannelsPopulateFails(p) ==
    /\ pc[p] = "channels.populate"
    /\ Finish(p, ClientError("RequestTimeoutError", 504, {}))
    /\ UNCHANGED <<storeVars, cache, bus, deployed, clock, issued, seen, call, hist,
                   overlapped>>

\* The history of a completed create: the document joins those whose create
\* completed since the last list of the service.
Since(svc, docs) ==
    IF seen.svc = svc THEN [seen EXCEPT !.done = @ \cup docs] ELSE seen

\* ChannelsEntityChanged without the broadcast: the response is returned at once.
ChannelsNoEntityChanged(p) ==
    /\ pc[p] = "channels.changed"
    /\ Finish(p, Ok([channel |-> call[p].json]))
    /\ seen' = Since("channels", call[p].doc)
    /\ UNCHANGED <<storeVars, cache, bus, deployed, clock, issued, call, hist, overlapped>>

\* .then(json => this.entityChanged("created", json, ctx).then(() => json))
ChannelsEntityChanged(p) ==
    /\ pc[p] = "channels.changed"
    /\ EntityChanged(p, "channels")
    /\ Finish(p, Ok([channel |-> call[p].json]))
    /\ seen' = Since("channels", call[p].doc)
    /\ UNCHANGED <<storeVars, deployed, clock, issued, call, overlapped>>

\* channels.list is called with { creator?, limit?, offset? }.
ChannelsListCall(p, token, creator, limit, offset) ==
    /\ CacheRoom("channels", [token |-> token, creator |-> creator,
                              limit |-> limit, offset |-> offset])
    /\ ListCall(p, "channels.list", token, creator, limit, offset, "channels.cache")
    /\ UNCHANGED <<storeVars, cache, bus, deployed, clock, issued, seen>>

\* The cacher middleware: a held result is returned without running the handler.
ChannelsListCached(p) ==
    /\ pc[p] = "channels.cache"
    /\ LET hit == Cached("channels", "list", ListKey(call[p])) IN
        IF hit # {}
          THEN \E e \in hit :
                /\ Finish(p, Ok(e.val))
                /\ call' = [call EXCEPT ![p].cached = TRUE, ![p].prev = seen,
                                        ![p].from = e.by]
          ELSE Goto(p, "channels.creator") /\ UNCHANGED <<res, call>>
    /\ UNCHANGED <<storeVars, cache, bus, deployed, clock, issued, seen, hist, overlapped>>

\* ChannelsListCreator without query.creator: the username is looked up and
\* the list is read unfiltered.
ChannelsListCreatorNoFilter(p) ==
    /\ pc[p] = "channels.creator"
    /\ IF call[p].creator # None /\ UsersFind(call[p].creator) = {}
         THEN Finish(p, ClientError("Channel not found", 400, {}))
         ELSE Goto(p, "channels.read") /\ UNCHANGED res
    /\ UNCHANGED <<storeVars, cache, bus, deployed, clock, issued, seen, hist, overlapped,
                   call>>

\* if (ctx.params.creator) users.find by username; none: "Channel not found".
ChannelsListCreator(p) ==
    /\ pc[p] = "channels.creator"
    /\ IF call[p].creator = None
         THEN Goto(p, "channels.read") /\ UNCHANGED <<res, call>>
         ELSE LET found == UsersFind(call[p].creator) IN
            IF found = {}
              THEN Finish(p, ClientError("Channel not found", 400, {}))
                   /\ UNCHANGED call
              ELSE /\ call' = [call EXCEPT ![p].query = {u.id : u \in FindOne(found)}]
                   /\ Goto(p, "channels.read")
                   /\ UNCHANGED res
    /\ UNCHANGED <<storeVars, cache, bus, deployed, clock, issued, seen, hist, overlapped>>

\* this.adapter.find(params), the first of the two concurrent reads
ChannelsListFind(p) ==
    /\ pc[p] = "channels.read"
    /\ call[p].rows = {}
    /\ call' = [call EXCEPT ![p].rows =
            {Find(Matching(channels, call[p].query), Limit(call[p].limit),
                  Offset(call[p].offset))}]
    /\ UNCHANGED <<storeVars, cache, bus, deployed, clock, issued, seen, pc, res, hist,
                   overlapped>>

\* this.adapter.count(countParams): limit and offset removed
ChannelsListCount(p) ==
    /\ pc[p] = "channels.read"
    /\ call[p].count = {}
    /\ call' = [call EXCEPT ![p].count =
            {Cardinality(Matching(channels, call[p].query))}]
    /\ UNCHANGED <<storeVars, cache, bus, deployed, clock, issued, seen, pc, res, hist,
                   overlapped>>

\* settings.populates: the relations transformDocuments can resolve.
Populates == {"creator"}
\* params.populate of channels.list: ["creater"].
ListPopulate == {"creater"}

\* transformDocuments(ctx, { populate }, doc): each relation that populate
\* names and settings.populates defines is resolved and inlined; any other
\* name is passed over.
Populate(doc, populate) ==
    IF "creator" \in populate \cap Populates
      THEN [doc EXCEPT !.creator = ChannelCreator(doc.creator)]
      ELSE doc

\* ChannelsListResult with a transform that resolves the rows in no fixed
\* order: the rows come out last first.
ChannelsListResultUnordered(p) ==
    /\ pc[p] = "channels.read"
    /\ \E rows \in call[p].rows, count \in call[p].count :
        LET r == [channels |-> [i \in DOMAIN rows |->
                                    Populate(rows[Len(rows) + 1 - i], ListPopulate)],
                  count |-> count] IN
            /\ Finish(p, Ok(r))
            /\ cache' = cache \cup
                    {[svc |-> "channels", action |-> "list", key |-> ListKey(call[p]),
                      val |-> r, at |-> clock, ttl |-> 0, by |-> Caller(call[p])]}
            /\ call' = [call EXCEPT ![p].prev = seen,
                                    ![p].populated = ListPopulate \cap Populates]
            /\ seen' = [svc |-> "channels", key |-> ListKey(call[p]), val |-> r,
                        since |-> {}, done |-> {}]
    /\ UNCHANGED <<storeVars, bus, deployed, clock, issued, hist, overlapped>>

\* transformDocuments(ctx, params, res[0]) with populate: ["creater"], which
\* names no populate rule; transformResult wraps the rows as { channels } and
\* r.count = res[1]; the cacher stores the result under the call's key.
ChannelsListResult(p) ==
    /\ pc[p] = "channels.read"
    /\ \E rows \in call[p].rows, count \in call[p].count :
        LET r == [channels |-> [i \in DOMAIN rows |-> Populate(rows[i], ListPopulate)],
                  count |-> count] IN
            /\ Finish(p, Ok(r))
            /\ cache' = cache \cup
                    {[svc |-> "channels", action |-> "list", key |-> ListKey(call[p]),
                      val |-> r, at |-> clock, ttl |-> 0, by |-> Caller(call[p])]}
            /\ call' = [call EXCEPT ![p].prev = seen,
                                    ![p].populated = ListPopulate \cap Populates]
            /\ seen' = [svc |-> "channels", key |-> ListKey(call[p]), val |-> r,
                        since |-> {}, done |-> {}]
    /\ UNCHANGED <<storeVars, bus, deployed, clock, issued, hist, overlapped>>

\* ---- messages --------------------------------------------------------------
TopicIds == {"t1"}

\* The message objects callers send: a body alone, and a body with the title
\* and description the entityValidator asks for.
MessageObjects == {[body |-> "hello", title |-> None, description |-> None],
                   [body |-> "hello", title |-> "note", description |-> "text"]}
\* entityValidator: { title: "string|min:3", description: "string|min:3" }
ValidMessage(e) == e.title # None /\ e.description # None

\* settings.fields: _id, message, createdAt, updatedAt, creator, topic
MessageFields(d) == [id |-> d.id, creator |-> d.creator, topic |-> d.topic]
\* populates.creator: users.get with fields _id, username, bio, image.
MessageCreator(id) == {[id |-> u.id, username |-> u.username] : u \in getById(id)}

\* messages.create is called with { topic, message } by the logged-in user.
MessagesCreateCall(p, topic, message, user, token) ==
    /\ DocsRoom
    /\ user \in users
    /\ Begin(p, [action |-> "messages.create", topic |-> topic, message |-> message,
                 user |-> user, token |-> token, doc |-> {}, json |-> {}],
             "messages.validate")
    /\ UNCHANGED <<storeVars, cache, bus, deployed, clock, issued, seen>>

\* entity.topic = ...; entity.creator = ...; this.validateEntity(entity)
MessagesValidate(p) ==
    /\ pc[p] = "messages.validate"
    /\ IF ValidMessage(call[p].message)
         THEN Goto(p, "messages.insert") /\ UNCHANGED res
         ELSE Finish(p, ClientError("Entity validation error!", 422, {}))
    /\ UNCHANGED <<storeVars, cache, bus, deployed, clock, issued, seen, call, hist,
                   overlapped>>

\* this.adapter.insert(entity)
MessagesInsert(p) ==
    /\ pc[p] = "messages.insert"
    /\ LET doc == Assign(call[p].message,
                         [id |-> nextId, topic |-> call[p].topic,
                          creator |-> call[p].user.id])
       IN  /\ messages' = messages \cup {doc}
           /\ call' = [call EXCEPT ![p].doc = {doc}]
           /\ seen' = Inserted("messages", doc)
    /\ nextId' = nextId + 1
    /\ hist' = [hist EXCEPT ![p].inserted = @ + 1]
    /\ Goto(p, "messages.populate")
    /\ UNCHANGED <<users, channels, topics, follows, cache, bus, deployed, clock, issued,
                   res, overlapped>>

\* transformDocuments(ctx, { populate: ["creator"] }, doc), transformResult
MessagesPopulate(p) ==
    /\ pc[p] = "messages.populate"
    /\ call' = [call EXCEPT ![p].json =
            {[MessageFields(d) EXCEPT !.creator = MessageCreator(d.creator)] :
                d \in call[p].doc}]
    /\ Goto(p, "messages.changed")
    /\ UNCHANGED <<storeVars, cache, bus, deployed, clock, issued, seen, res, hist,
                   overlapped>>

\* The users.get call of the populate fails (the users service does not answer):
\* the chain rejects with the call's error and entityChanged is never reached.
MessagesPopulateFails(p) ==
    /\ pc[p] = "messages.populate"
    /\ Finish(p, ClientError("RequestTimeoutError", 504, {}))
    /\ UNCHANGED <<storeVars, cache, bus, deployed, clock, issued, seen, call, hist,
                   overlapped>>

\* MessagesEntityChanged without the broadcast: the response is returned at once.
MessagesNoEntityChanged(p) ==
    /\ pc[p] = "messages.changed"
    /\ Finish(p, Ok([article |-> call[p].json]))
    /\ seen' = Since("messages", call[p].doc)
    /\ UNCHANGED <<storeVars, cache, bus, deployed, clock, issued, call, hist, overlapped>>

\* .then(json => this.entityChanged("created", json, ctx).then(() => json))
MessagesEntityChanged(p) ==
    /\ pc[p] = "messages.changed"
    /\ EntityChanged(p, "messages")
    /\ Finish(p, Ok([article |-> call[p].json]))
    /\ seen' = Since("messages", call[p].doc)
    /\ UNCHANGED <<storeVars, deployed, clock, issued, call, overlapped>>

\* messages.list is called with { creator?, limit?, offset? }.
MessagesListCall(p, token, creator, limit, offset) ==
    /\ CacheRoom("messages", [token |-> token, creator |-> creator,
                              limit |-> limit, offset |-> offset])
    /\ ListCall(p, "messages.list", token, creator, limit, offset, "messages.cache")
    /\ UNCHANGED <<storeVars, cache, bus, deployed, clock, issued, seen>>

\* The cacher middleware: a held result is returned without running the handler.
MessagesListCached(p) ==
    /\ pc[p] = "messages.cache"
    /\ LET hit == Cached("messages", "list", ListKey(call[p])) IN
        IF hit # {}
          THEN \E e \in hit :
                /\ Finish(p, Ok(e.val))
                /\ call' = [call EXCEPT ![p].cached = TRUE, ![p].prev = seen,
                                        ![p].from = e.by]
          ELSE Goto(p, "messages.creator") /\ UNCHANGED <<res, call>>
    /\ UNCHANGED <<storeVars, cache, bus, deployed, clock, issued, seen, hist, overlapped>>

\* if (ctx.params.creator) users.find by username; none: "Creator not found".
MessagesListCreator(p) ==
    /\ pc[p] = "messages.creator"
    /\ IF call[p].creator = None
         THEN Goto(p, "messages.read") /\ UNCHANGED <<res, call>>
         ELSE LET found == UsersFind(call[p].creator) IN
            IF found = {}
              THEN Finish(p, ClientError("Creator not found", 400, {}))
                   /\ UNCHANGED call
              ELSE /\ call' = [call EXCEPT ![p].query = {u.id : u \in FindOne(found)}]
                   /\ Goto(p, "messages.read")
                   /\ UNCHANGED res
    /\ UNCHANGED <<storeVars, cache, bus, deployed, clock, issued, seen, hist, overlapped>>

\* this.adapter.find(params), the first of the two concurrent reads
MessagesListFind(p) ==
    /\ pc[p] = "messages.read"
    /\ call[p].rows = {}
    /\ call' = [call EXCEPT ![p].rows =
            {Find(Matching(messages, call[p].query), Limit(call[p].limit),
                  Offset(call[p].offset))}]
    /\ UNCHANGED <<storeVars, cache, bus, deployed, clock, issued, seen, pc, res, hist,
                   overlapped>>

\* this.adapter.count(countParams): limit and offset removed
MessagesListCount(p) ==
    /\ pc[p] = "messages.read"
    /\ call[p].count = {}
    /\ call' = [call EXCEPT ![p].count =
            {Cardinality(Matching(messages, call[p].query))}]
    /\ UNCHANGED <<storeVars, cache, bus, deployed, clock, issued, seen, pc, res, hist,
                   overlapped>>

\* transformDocuments(ctx, params, res[0]) keeps the response fields;
\* transformResult wraps the rows as { channels } and r.count = res[1]; the
\* cacher stores the result under the call's key.
MessagesListResult(p) ==
    /\ pc[p] = "messages.read"
    /\ \E rows \in call[p].rows, count \in call[p].count :
        LET r == [channels |-> [i \in DOMAIN rows |-> MessageFields(rows[i])],
                  count |-> count] IN
            /\ Finish(p, Ok(r))
            /\ cache' = cache \cup
                    {[svc |-> "messages", action |-> "list", key |-> ListKey(call[p]),
                      val |-> r, at |-> clock, ttl |-> 0, by |-> Caller(call[p])]}
            /\ call' = [call EXCEPT ![p].prev = seen]
            /\ seen' = [svc |-> "messages", key |-> ListKey(call[p]), val |-> r,
                        since |-> {}, done |-> {}]
    /\ UNCHANGED <<storeVars, bus, deployed, clock, issued, hist, overlapped>>

\* ---- the specification ------------------------------------------------------
\* The caller of the lists: alice's session.
ListTokens == {generateJWT(Alice, 0)}
\* The creator filters callers send: none, a user, a name nobody has.
Creators == {None, "bob", "carol"}
\* The (limit, offset) pairs callers send: neither, and the second page of one.
Pages == {<<NoNumber, NoNumber>>, <<1, 1>>}

InitCache ==
    /\ users = {Alice, Bob}
    /\ channels = {}
    /\ topics = {}
    /\ messages = {}
    /\ follows = {}
    /\ nextId = 3
    /\ cache = {}
    /\ bus = {}
    /\ deployed = {"channels", "messages"}
    /\ clock = 0
    /\ issued = {}
    /\ seen = NoSeen
    /\ InitSlots

NextCache ==
    \/ \E c \in ChannelObjects, u \in users : ChannelsCreateCall(Client, c, u, NoToken)
    \/ ChannelsValidate(Client)
    \/ ChannelsInsert(Client)
    \/ ChannelsPopulate(Client)
    \/ ChannelsPopulateFails(Client)
    \/ ChannelsEntityChanged(Client)
    \/ \E t \in ListTokens, c \in Creators, g \in Pages :
        ChannelsListCall(Client, t, c, g[1], g[2])
    \/ ChannelsListCached(Client)
    \/ ChannelsListCreator(Client)
    \/ ChannelsListFind(Client)
    \/ ChannelsListCount(Client)
    \/ ChannelsListResult(Client)
    \/ \E t \in TopicIds, m \in MessageObjects, u \in users :
        MessagesCreateCall(Client, t, m, u, NoToken)
    \/ MessagesValidate(Client)
    \/ MessagesInsert(Client)
    \/ MessagesPopulate(Client)
    \/ MessagesPopulateFails(Client)
    \/ MessagesEntityChanged(Client)
    \/ \E t \in ListTokens, c \in Creators, g \in Pages :
        MessagesListCall(Client, t, c, g[1], g[2])
    \/ MessagesListCached(Client)
    \/ MessagesListCreator(Client)
    \/ MessagesListFind(Client)
    \/ MessagesListCount(Client)
    \/ MessagesListResult(Client)
    \/ \E k \in Kinds, s \in Services : Deliver(k, s)

SpecCache == InitCache /\ [][NextCache]_vars


(***************************************************************************)
(* Claims about the follows service, checked under SpecFollows.           *)
(***************************************************************************)
Done(p, action) == Idle(p) /\ call[p].action = action /\ res[p] # NoRes
Failed(p, msg) == res[p].err = msg
Succeeded(p) == res[p].err = None

\* C1: in every reachable state, concurrent follows.add calls included, the
\* follows collection holds at most one record for each (channel, user) pair.
C1_AtMostOneFollowPerPair ==
    \A f \in follows, g \in follows :
        (f.channel = g.channel /\ f.user = g.user) => f = g

\* C3: follows.add fails with "already joined" exactly when its probe finds a
\* record for the pair, and then it has inserted nothing and emitted nothing;
\* otherwise it inserts exactly one record, for that pair, and emits the
\* follows event after the insert.  Run one call at a time, add fails exactly
\* when the pair was already joined when it was called, so add(c,u) after
\* add(c,u) fails.
C3_AddContract ==
    \A p \in Procs :
        /\ Done(p, "follows.add") =>
            /\ Failed(p, "Channel has already joined") <=> call[p].item # {}
            /\ Failed(p, "Channel has already joined") =>
                /\ hist[p].inserted = 0
                /\ hist[p].emitted = 0
                /\ call[p].json = {}
            /\ ~Failed(p, "Channel has already joined") =>
                /\ Succeeded(p)
                /\ hist[p].inserted = 1
                /\ hist[p].emitted = 1
                /\ res[p].val = call[p].json
                /\ \A j \in call[p].json :
                    j.channel = call[p].channel /\ j.user = call[p].user
            /\ ~overlapped =>
                (Failed(p, "Channel has already joined") <=> call[p].pre)
        /\ pc[p] \in {"add.find", "add.insert"} =>
            hist[p].inserted = 0 /\ hist[p].emitted = 0
        /\ pc[p] = "add.changed" =>
            hist[p].inserted = 1 /\ hist[p].emitted = 0

\* C3 witness: with one call in flight at a time, an add on a joined pair has
\* been rejected.
C3_Witness ==
    /\ ~overlapped
    /\ \E p \in Procs :
        /\ Done(p, "follows.add")
        /\ call[p].pre
        /\ Failed(p, "Channel has already joined")
        /\ \E f \in follows : f.channel = call[p].channel /\ f.user = call[p].user

\* C4: follows.delete fails with "not joined" exactly when its probe finds no
\* record for the pair, and then it has changed nothing and emitted nothing;
\* otherwise the record it found is gone and the follows event is emitted
\* after the removal.  Run one call at a time, delete fails exactly when the
\* pair was not joined when it was called, so delete after add succeeds
\* (removing one record) and a further delete fails.
C4_DeleteContract ==
    \A p \in Procs :
        /\ Done(p, "follows.delete") =>
            /\ Failed(p, "Channel has not joined yet") <=> call[p].item = {}
            /\ Failed(p, "Channel has not joined yet") =>
                /\ hist[p].removed = 0
                /\ hist[p].inserted = 0
                /\ hist[p].emitted = 0
            /\ ~Failed(p, "Channel has not joined yet") =>
                /\ Succeeded(p)
                /\ hist[p].inserted = 0
                /\ hist[p].emitted = 1
                /\ \A i \in call[p].item : \A f \in follows : f.id # i.id
            /\ ~overlapped =>
                /\ Failed(p, "Channel has not joined yet") <=> ~call[p].pre
                /\ Succeeded(p) => hist[p].removed = 1 /\ call[p].json = call[p].item
        /\ pc[p] = "delete.find" => hist[p].removed = 0 /\ hist[p].emitted = 0
        /\ pc[p] = "delete.remove" => hist[p].removed = 0 /\ hist[p].emitted = 0
        /\ pc[p] = "delete.changed" =>
            /\ hist[p].emitted = 0
            /\ \A i \in call[p].item : \A f \in follows : f.id # i.id

\* C4 witness: with one call in flight at a time, a delete of a joined pair
\* has succeeded and a further delete of the same pair has been rejected.
C4_Witness ==
    /\ ~overlapped
    /\ \E p \in Procs, q \in Procs :
        /\ Done(p, "follows.delete") /\ Succeeded(p) /\ hist[p].removed = 1
        /\ Done(q, "follows.delete") /\ Failed(q, "Channel has not joined yet")
        /\ call[p].channel = call[q].channel /\ call[p].user = call[q].user
        /\ \A i \in call[p].item : i.id = nextId - 1
        /\ follows = {}

(***************************************************************************)
(* Claims about the users service, checked under SpecUsers and SpecTokens. *)
(***************************************************************************)
\* C2: in every reachable state, concurrent users.create calls included, no
\* two stored users share a username and no two share an email.
C2_UniqueUsernameAndEmail ==
    \A u \in users, v \in users :
        u # v => (u.username # v.username /\ u.email # v.email)

UsernameExists == ClientError("Username is exist!", 422,
                              {[field |-> "username", message |-> "is exist"]})
EmailExists == ClientError("Email is exist!", 422,
                           {[field |-> "email", message |-> "is exist"]})

\* C5: users.create run one call at a time: a username already stored is
\* rejected with 422 naming field "username" / "is exist"; a fresh username
\* with a stored email is rejected naming field "email"; a rejected call has
\* inserted nothing and emitted no users event; with both fresh the user is
\* inserted.
C5_CreateRejectsDuplicates ==
    \A p \in Procs :
        Done(p, "users.create") =>
            /\ ~Succeeded(p) =>
                /\ hist[p].inserted = 0
                /\ hist[p].emitted = 0
                /\ call[p].doc = {}
            /\ ~overlapped =>
                /\ call[p].preUsername => res[p] = UsernameExists
                /\ (~call[p].preUsername /\ call[p].preEmail) => res[p] = EmailExists
                /\ (~call[p].preUsername /\ ~call[p].preEmail) =>
                    /\ Succeeded(p)
                    /\ hist[p].inserted = 1
                    /\ call[p].doc \subseteq users
                    /\ \A d \in call[p].doc :
                        /\ d.username = call[p].username
                        /\ d.email = call[p].email
                        /\ d.id = res[p].val.user.id

\* C5 witness: with one call in flight at a time, one create was rejected for
\* its username and another, with a fresh username, for its email.
C5_Witness ==
    /\ ~overlapped
    /\ \E p \in Procs, q \in Procs :
        /\ Done(p, "users.create") /\ res[p] = UsernameExists
        /\ Done(q, "users.create") /\ res[q] = EmailExists
        /\ ~call[q].preUsername

\* C6: for every user created by users.create, whatever the caller's context,
\* resolving the token of the create response (while it has not expired)
\* yields the user record whose identifier is the new user's.
C6_CreateTokenResolvesToNewUser ==
    \A p \in Procs :
        (/\ Done(p, "users.create")
         /\ Succeeded(p)
         /\ clock < res[p].val.user.token.exp) =>
            /\ resolveToken(res[p].val.user.token) # {}
            /\ \A u \in resolveToken(res[p].val.user.token) : u.id = res[p].val.user.id

\* C7: users.resolveToken called with a token that has expired, or whose
\* signature does not verify, fails and returns no user, also while an
\* earlier resolution of the token is still cached.
C7_ExpiredOrTamperedTokenFails ==
    \A p \in Procs :
        (/\ Done(p, "users.resolveToken")
         /\ Verify(call[p].token, call[p].at) # None) =>
            /\ ~Succeeded(p)
            /\ res[p].val = {}

(***************************************************************************)
(* Claims about the read cache and the invalidation bus, checked under     *)
(* SpecCache.                                                              *)
(***************************************************************************)
\* A list of the service has returned, the last list computed and cached before
\* it had the same token and parameters, and a create of the service completed
\* in between.
ListAfterCreate(p, action, svc) ==
    /\ Done(p, action)
    /\ Succeeded(p)
    /\ call[p].prev.svc = svc
    /\ call[p].prev.key = ListKey(call[p])
    /\ call[p].prev.done # {}

\* The documents persisted in between that pass the list's creator filter.
NewMatching(p) == Matching(call[p].prev.since, call[p].query)

\* The list was computed from the storage: it counts the new documents that
\* pass its filter on top of the earlier count, its first page starts with the
\* newest of them, and without such documents it equals the earlier result.
Recomputed(p, rows) ==
    /\ ~call[p].cached
    /\ res[p].val.count = call[p].prev.val.count + Cardinality(NewMatching(p))
    /\ (NewMatching(p) # {} /\ Offset(call[p].offset) = 0) =>
            /\ Len(rows) > 0
            /\ \E d \in NewMatching(p) :
                /\ rows[1].id = d.id
                /\ \A e \in NewMatching(p) : e.id <= d.id
    /\ NewMatching(p) = {} => res[p].val = call[p].prev.val

MessagesDelivered == \A s \in Services : <<"messages", s>> \notin bus

C10_EveryServiceFlushesOnEveryKind ==
    [][\A k \in Kinds, s \in Services :
        (<<k, s>> \in bus /\ <<k, s>> \notin bus') =>
            \A e \in cache' : e.svc # s]_vars

(***************************************************************************)
(* topics service (src/services/topic.service.ts) and the channels reads  *)
(* by slug (src/services/user.service.ts).                                *)
(***************************************************************************)
MaxTopics == 1

\* entityValidator: { title: "string|min:3", description: "string|min:3" }
TopicObjects == {[title |-> "Welcome", description |-> "hello"]}
ValidTopic(e) == TitleLen(e.title) >= 3

\* A channel identifier that no stored channel has.
NoChannel == 0

\* The model accepts a topics.create only while fewer than MaxTopics topics
\* have been or are about to be inserted.
TopicsRoom ==
    Cardinality(topics)
        + Cardinality({p \in Procs : pc[p] \in {"topics.validate", "topics.insert"}})
        < MaxTopics

\* topics.create is called with { channel, topic } by the logged-in user.
TopicsCreateCall(p, channel, topic, user, token) ==
    /\ TopicsRoom
    /\ user \in users
    /\ Begin(p, [action |-> "topics.create", channel |-> channel, topic |-> topic,
                 user |-> user, token |-> token, doc |-> {}, json |-> {}],
             "topics.validate")
    /\ UNCHANGED <<storeVars, cache, bus, deployed, clock, issued, seen>>

\* entity.channel = ctx.params.channel; entity.creator = user._id;
\* this.validateEntity(entity)
TopicsValidate(p) ==
    /\ pc[p] = "topics.validate"
    /\ IF ValidTopic(call[p].topic)
         THEN Goto(p, "topics.insert") /\ UNCHANGED res
         ELSE Finish(p, ClientError("Entity validation error!", 422, {}))
    /\ UNCHANGED <<storeVars, cache, bus, deployed, clock, issued, seen, call, hist,
                   overlapped>>

\* entity.slug = ...; this.adapter.insert(entity)
TopicsInsert(p) ==
    /\ pc[p] = "topics.insert"
    /\ \E r \in Suffixes :
        LET doc == Assign(call[p].topic,
                          [id |-> nextId,
                           slug |-> <<Slug(call[p].topic.title), r>>,
                           channel |-> call[p].channel,
                           creator |-> call[p].user.id])
        IN  /\ topics' = topics \cup {doc}
            /\ call' = [call EXCEPT ![p].doc = {doc}]
    /\ nextId' = nextId + 1
    /\ hist' = [hist EXCEPT ![p].inserted = @ + 1]
    /\ Goto(p, "topics.populate")
    /\ UNCHANGED <<users, channels, messages, follows, cache, bus, deployed, clock,
                   issued, seen, res, overlapped>>

\* populates.creator: users.get with fields _id, username, bio, image.
TopicCreator(id) == {[id |-> u.id, username |-> u.username] : u \in getById(id)}

\* TopicsPopulate answering the caller at once: the response is returned
\* before entityChanged has run.
TopicsPopulateResponds(p) ==
    /\ pc[p] = "topics.populate"
    /\ Finish(p, Ok([topic |->
            {[d EXCEPT !.creator = TopicCreator(d.creator)] : d \in call[p].doc}]))
    /\ UNCHANGED <<storeVars, cache, bus, deployed, clock, issued, seen, call, hist,
                   overlapped>>

\* transformDocuments(ctx, { populate: ["creator"] }, doc), transformResult
TopicsPopulate(p) ==
    /\ pc[p] = "topics.populate"
    /\ call' = [call EXCEPT ![p].json =
            {[d EXCEPT !.creator = TopicCreator(d.creator)] : d \in call[p].doc}]
    /\ Goto(p, "topics.changed")
    /\ UNCHANGED <<storeVars, cache, bus, deployed, clock, issued, seen, res, hist,
                   overlapped>>

\* this.entityChanged("created", json, ctx).then(() => json)
TopicsEntityChanged(p) ==
    /\ pc[p] = "topics.changed"
    /\ EntityChanged(p, "topics")
    /\ Finish(p, Ok([topic |-> call[p].json]))
    /\ UNCHANGED <<storeVars, deployed, clock, issued, seen, call, overlapped>>

\* cache: { keys: ["#token", "channel", "limit", "offset"] }
TopicsListKey(c) == <<c.token, c.channel, c.limit, c.offset>>

\* topics.list on the present storage: query { channel }, populate ["creator"],
\* transformResult wraps the rows as { topics } and r.topicCount = res[1].
TopicsList(channel, limit, offset) ==
    LET docs == {t \in topics : t.channel = channel}
        rows == Find(docs, Limit(limit), Offset(offset)) IN
        [topics |-> [i \in DOMAIN rows |->
                        [rows[i] EXCEPT !.creator = TopicCreator(rows[i].creator)]],
         topicCount |-> Cardinality(docs)]

\* The cacher stores the result of a cached action under the call's key.
Store(svc, action, key, val, by) ==
    [svc |-> svc, action |-> action, key |-> key, val |-> val, at |-> clock,
     ttl |-> 0, by |-> by]

\* A cached read is called by the holder of a token with its parameters.
ReadCall(p, action, token, params, at) ==
    /\ Begin(p, [action |-> action, token |-> token, params |-> params,
                 cached |-> FALSE, from |-> NoCaller, found |-> {}], at)
    /\ UNCHANGED <<storeVars, cache, bus, deployed, clock, issued, seen>>

\* The cacher middleware in front of a handler: a held result is returned
\* without running the handler.
ReadCached(p, svc, action, key, at, next) ==
    /\ pc[p] = at
    /\ LET hit == Cached(svc, action, key) IN
        IF hit # {}
          THEN \E e \in hit :
                /\ Finish(p, Ok(e.val))
                /\ call' = [call EXCEPT ![p].cached = TRUE, ![p].from = e.by]
          ELSE Goto(p, next) /\ UNCHANGED <<res, call>>
    /\ UNCHANGED <<storeVars, cache, bus, deployed, clock, issued, seen, hist, overlapped>>

\* topics.list is called with { channel, limit?, offset? }.
TopicsListCall(p, token, channel, limit, offset) ==
    /\ ReadRoom("topics", "list", [channel |-> channel, limit |-> limit, offset |-> offset])
    /\ ReadCall(p, "topics.list", token,
                [channel |-> channel, limit |-> limit, offset |-> offset],
                "topics.cache")

TopicsListCached(p) ==
    /\ pc[p] = "topics.cache"
    /\ ReadCached(p, "topics", "list",
                  TopicsListKey([token |-> call[p].token] @@ call[p].params),
                  "topics.cache", "topics.read")

\* Promise.all([adapter.find(params), adapter.count(countParams)]), transform,
\* topicCount; the cacher stores the result.
TopicsListResult(p) ==
    /\ pc[p] = "topics.read"
    /\ LET c == call[p].params
           r == TopicsList(c.channel, c.limit, c.offset) IN
        /\ Finish(p, Ok(r))
        /\ cache' = cache \cup
                {Store("topics", "list", TopicsListKey([token |-> call[p].token] @@ c),
                       r, Caller(call[p]))}
    /\ UNCHANGED <<storeVars, bus, deployed, clock, issued, seen, call, hist, overlapped>>

\* findBySlug(slug): this.adapter.findOne({ slug })
findBySlug(slug) == FindOne({c \in channels : c.slug = slug})

\* cache: { keys: ["#token", "id"] }
GetKey(c) == <<c.token, c.id>>

\* channels.get is called with { id }, the slug.
ChannelsGetCall(p, token, id) ==
    /\ ReadRoom("channels", "get", [id |-> id])
    /\ ReadCall(p, "channels.get", token, [id |-> id], "channels.get.cache")

ChannelsGetCached(p) ==
    /\ pc[p] = "channels.get.cache"
    /\ ReadCached(p, "channels", "get",
                  GetKey([token |-> call[p].token] @@ call[p].params),
                  "channels.get.cache", "channels.get.find")

\* findBySlug(ctx.params.id): none gives "Channel not found!" 404; else the
\* channel with its creator populated, wrapped as { channel }.
ChannelsGetFind(p) ==
    /\ pc[p] = "channels.get.find"
    /\ LET found == findBySlug(call[p].params.id) IN
        IF found = {}
          THEN Finish(p, ClientError("Channel not found!", 404, {}))
               /\ UNCHANGED cache
          ELSE LET r == [channel |->
                    {[d EXCEPT !.creator = ChannelCreator(d.creator)] : d \in found}] IN
               /\ Finish(p, Ok(r))
               /\ cache' = cache \cup
                    {Store("channels", "get",
                           GetKey([token |-> call[p].token] @@ call[p].params),
                           r, Caller(call[p]))}
    /\ UNCHANGED <<storeVars, bus, deployed, clock, issued, seen, call, hist, overlapped>>

\* cache: { keys: ["#token", "slug"] }
TopicsKey(c) == <<c.token, c.slug>>

\* The topics whose create has completed and whose notification every service
\* has handled: all stored topics when no topics.create is past its insert and
\* no topics notification is in flight (history, for the properties).
Settled ==
    IF /\ \A q \in Procs : pc[q] \notin {"topics.populate", "topics.changed"}
       /\ \A s \in Services : <<"topics", s>> \notin bus
      THEN topics ELSE {}

\* channels.topics is called with { slug }.
ChannelsTopicsCall(p, token, slug) ==
    /\ ReadRoom("channels", "topics", [slug |-> slug])
    /\ Begin(p, [action |-> "channels.topics", token |-> token,
                 params |-> [slug |-> slug], cached |-> FALSE, from |-> NoCaller,
                 found |-> {}, result |-> {}, settled |-> Settled],
             "channels.topics.cache")
    /\ UNCHANGED <<storeVars, cache, bus, deployed, clock, issued, seen>>

ChannelsTopicsCached(p) ==
    /\ pc[p] = "channels.topics.cache"
    /\ ReadCached(p, "channels", "topics",
                  TopicsKey([token |-> call[p].token] @@ call[p].params),
                  "channels.topics.cache", "channels.topics.find")

\* findBySlug(slug): none gives "Channel not found" 404.
ChannelsTopicsFind(p) ==
    /\ pc[p] = "channels.topics.find"
    /\ LET found == findBySlug(call[p].params.slug) IN
        IF found = {}
          THEN Finish(p, ClientError("Channel not found", 404, {}))
               /\ UNCHANGED call
          ELSE /\ call' = [call EXCEPT ![p].found = found]
               /\ Goto(p, "channels.topics.list")
               /\ UNCHANGED res
    /\ UNCHANGED <<storeVars, cache, bus, deployed, clock, issued, seen, hist, overlapped>>

\* ctx.call("topics.list", { channel: channel._id.toString() }) with the
\* caller's meta: the nested call goes through the cacher of topics.list. A
\* held result is the result of channels.topics, which the cacher stores;
\* otherwise the handler of topics.list reads the storage.
ChannelsTopicsList(p) ==
    /\ pc[p] = "channels.topics.list"
    /\ \E ch \in call[p].found :
        LET nested == [token |-> call[p].token,
                       params |-> [channel |-> ch.id, limit |-> NoNumber,
                                   offset |-> NoNumber]]
            key == TopicsListKey([token |-> nested.token] @@ nested.params)
            hit == Cached("topics", "list", key) IN
        IF hit # {}
          THEN \E e \in hit :
                /\ Finish(p, Ok(e.val))
                /\ cache' = cache \cup
                        {Store("channels", "topics",
                               TopicsKey([token |-> call[p].token] @@ call[p].params),
                               e.val, Caller(call[p]))}
                /\ UNCHANGED call
          ELSE /\ call' = [call EXCEPT ![p].result =
                                {TopicsList(ch.id, NoNumber, NoNumber)}]
               /\ Goto(p, "channels.topics.store")
               /\ UNCHANGED <<res, cache>>
    /\ UNCHANGED <<storeVars, bus, deployed, clock, issued, seen, hist, overlapped>>

\* The handlers have resolved: the cacher of topics.list stores the result
\* under the nested call's key and the cacher of channels.topics under the
\* caller's, whatever was flushed since the storage was read.
ChannelsTopicsStore(p) ==
    /\ pc[p] = "channels.topics.store"
    /\ \E ch \in call[p].found, r \in call[p].result :
        LET nested == [token |-> call[p].token,
                       params |-> [channel |-> ch.id, limit |-> NoNumber,
                                   offset |-> NoNumber]]
            key == TopicsListKey([token |-> nested.token] @@ nested.params) IN
            /\ Finish(p, Ok(r))
            /\ cache' = cache \cup
                    {Store("topics", "list", key, r, nested),
                     Store("channels", "topics",
                           TopicsKey([token |-> call[p].token] @@ call[p].params),
                           r, Caller(call[p]))}
    /\ UNCHANGED <<storeVars, bus, deployed, clock, issued, seen, call, hist, overlapped>>

(***************************************************************************)
(* The cached reads of channels and topics, called by two token holders.  *)
(***************************************************************************)
KeyTokens == {generateJWT(Alice, 0), generateJWT(Bob, 0)}

\* The cached actions of the channels and topics services.
CachedActions == {"channels.list", "channels.get", "channels.topics", "topics.list"}

InitKeys ==
    /\ users = {Alice, Bob}
    /\ channels = {}
    /\ topics = {}
    /\ messages = {}
    /\ follows = {}
    /\ nextId = 3
    /\ cache = {}
    /\ bus = {}
    /\ deployed = {"channels", "topics"}
    /\ clock = 0
    /\ issued = {}
    /\ seen = NoSeen
    /\ InitSlots

NextKeys ==
    \/ \E c \in {o \in ChannelObjects : ValidChannel(o)} :
        ChannelsCreateCall(Client, c, Bob, NoToken)
    \/ ChannelsValidate(Client)
    \/ ChannelsInsert(Client)
    \/ ChannelsPopulate(Client)
    \/ ChannelsEntityChanged(Client)
    \/ \E t \in KeyTokens, c \in {None, "bob"} :
        ChannelsListCall(Client, t, c, NoNumber, NoNumber)
    \/ ChannelsListCached(Client)
    \/ ChannelsListCreator(Client)
    \/ ChannelsListFind(Client)
    \/ ChannelsListCount(Client)
    \/ ChannelsListResult(Client)
    \/ \E t \in KeyTokens, c \in channels : ChannelsGetCall(Client, t, c.slug)
    \/ ChannelsGetCached(Client)
    \/ ChannelsGetFind(Client)
    \/ \E t \in KeyTokens, c \in channels : ChannelsTopicsCall(Client, t, c.slug)
    \/ ChannelsTopicsCached(Client)
    \/ ChannelsTopicsFind(Client)
    \/ ChannelsTopicsList(Client)
    \/ ChannelsTopicsStore(Client)
    \/ \E t \in KeyTokens, c \in channels, g \in Pages :
        TopicsListCall(Client, t, c.id, g[1], g[2])
    \/ TopicsListCached(Client)
    \/ TopicsListResult(Client)
    \/ \E k \in Kinds, s \in Services : Deliver(k, s)

SpecKeys == InitKeys /\ [][NextKeys]_vars

(***************************************************************************)
(* channels and topics, one request at a time: create, update, addTopics. *)
(***************************************************************************)
MaxChannels == 2

\* The model accepts a channels.create only while fewer than MaxChannels
\* channels have been or are about to be inserted.
ChannelsRoom ==
    Cardinality(channels)
        + Cardinality({p \in Procs : pc[p] \in {"channels.validate", "channels.insert"}})
        < MaxChannels

\* channels.addTopics is called with { slug, topic } by the logged-in user.
AddTopicsCall(p, slug, topic, user, token) ==
    /\ TopicsRoom
    /\ user \in users
    /\ Begin(p, [action |-> "channels.addTopics", slug |-> slug, topic |-> topic,
                 channel |-> NoChannel, user |-> user, token |-> token,
                 doc |-> {}, json |-> {}],
             "channels.addTopics.find")
    /\ UNCHANGED <<storeVars, cache, bus, deployed, clock, issued, seen>>

\* findBySlug(slug): none gives "Channel not found" 404; else
\* ctx.call("topics.create", { channel: channel._id.toString(), topic }),
\* whose outcome is the outcome of addTopics.
AddTopicsFind(p) ==
    /\ pc[p] = "channels.addTopics.find"
    /\ LET found == findBySlug(call[p].slug) IN
        IF found = {}
          THEN Finish(p, ClientError("Channel not found", 404, {}))
               /\ UNCHANGED call
          ELSE \E ch \in found :
                /\ call' = [call EXCEPT ![p].channel = ch.id]
                /\ Goto(p, "topics.validate")
                /\ UNCHANGED res
    /\ UNCHANGED <<storeVars, cache, bus, deployed, clock, issued, seen, hist, overlapped>>

\* The field objects channels.update is called with: params.channel is an
\* object whose title and description are optional strings of one character
\* or more; properties the schema does not name are let through.
UpdateObjects == {[title |-> "News"],
                  [description |-> "all of it"],
                  [slug |-> NoSlug]}

\* channels.update is called with { id, channel } by the logged-in user; id is
\* the slug.
ChannelsUpdateCall(p, id, channel, user, token) ==
    /\ user \in users
    /\ Begin(p, [action |-> "channels.update", id |-> id, channel |-> channel,
                 user |-> user, token |-> token, found |-> {}, before |-> channels,
                 doc |-> {}, json |-> {}],
             "channels.update.find")
    /\ UNCHANGED <<storeVars, cache, bus, deployed, clock, issued, seen>>

\* findBySlug(slug): none gives "Channel not found" 404; a channel of another
\* creator gives "This belong to <creator>" with code 500.
ChannelsUpdateFind(p) ==
    /\ pc[p] = "channels.update.find"
    /\ LET found == findBySlug(call[p].id) IN
        /\ call' = [call EXCEPT ![p].found = found]
        /\ IF found = {}
             THEN Finish(p, ClientError("Channel not found", 404, {}))
             ELSE \E ch \in found :
                IF ch.creator # call[p].user.id
                  THEN Finish(p, ClientError(<<"This belong to ", ch.creator>>, 500, {}))
                  ELSE Goto(p, "channels.update.set") /\ UNCHANGED res
    /\ UNCHANGED <<storeVars, cache, bus, deployed, clock, issued, seen, hist, overlapped>>

\* { $set: newData }: the fields of newData replace those of the document.
Set(doc, newData) == newData @@ doc

\* this.adapter.updateById(channel._id, { $set: newData })
ChannelsUpdateSet(p) ==
    /\ pc[p] = "channels.update.set"
    /\ \E ch \in call[p].found :
        LET doc == {Set(c, call[p].channel) : c \in {d \in channels : d.id = ch.id}} IN
            /\ channels' = {c \in channels : c.id # ch.id} \cup doc
            /\ call' = [call EXCEPT ![p].doc = doc]
    /\ Goto(p, "channels.update.populate")
    /\ UNCHANGED <<users, topics, messages, follows, nextId, cache, bus, deployed,
                   clock, issued, seen, res, hist, overlapped>>

\* transformDocuments(ctx, { populate: ["creator"] }, doc), transformResult
ChannelsUpdatePopulate(p) ==
    /\ pc[p] = "channels.update.populate"
    /\ call' = [call EXCEPT ![p].json =
            {[d EXCEPT !.creator = ChannelCreator(d.creator)] : d \in call[p].doc}]
    /\ Goto(p, "channels.update.changed")
    /\ UNCHANGED <<storeVars, cache, bus, deployed, clock, issued, seen, res, hist,
                   overlapped>>

\* this.entityChanged("updated", json, ctx).then(() => json)
ChannelsUpdateEntityChanged(p) ==
    /\ pc[p] = "channels.update.changed"
    /\ EntityChanged(p, "channels")
    /\ Finish(p, Ok([channel |-> call[p].json]))
    /\ UNCHANGED <<storeVars, deployed, clock, issued, seen, call, overlapped>>

\* The slugs callers name: those of the stored channels and one of no channel.
Slugs == {c.slug : c \in channels} \cup {NoSlug}

InitChannels ==
    /\ users = {Alice, Bob}
    /\ channels = {}
    /\ topics = {}
    /\ messages = {}
    /\ follows = {}
    /\ nextId = 3
    /\ cache = {}
    /\ bus = {}
    /\ deployed = {"channels", "topics"}
    /\ clock = 0
    /\ issued = {}
    /\ seen = NoSeen
    /\ InitSlots

NextChannels ==
    \/ \E c \in ChannelObjects, u \in users :
        ChannelsRoom /\ ChannelsCreateStart(Client, c, u, NoToken)
    \/ ChannelsValidate(Client)
    \/ ChannelsInsert(Client)
    \/ ChannelsPopulate(Client)
    \/ ChannelsEntityChanged(Client)
    \/ \E g \in Slugs, o \in UpdateObjects, u \in users :
        ChannelsUpdateCall(Client, g, o, u, NoToken)
    \/ ChannelsUpdateFind(Client)
    \/ ChannelsUpdateSet(Client)
    \/ ChannelsUpdatePopulate(Client)
    \/ ChannelsUpdateEntityChanged(Client)
    \/ \E k \in Kinds, s \in Services : Deliver(k, s)

SpecChannels == InitChannels /\ [][NextChannels]_vars

\* Topics are created directly and through channels.addTopics.
NextTopics ==
    \/ \E c \in ChannelObjects, u \in users : ChannelsCreateCall(Client, c, u, NoToken)
    \/ ChannelsValidate(Client)
    \/ ChannelsInsert(Client)
    \/ ChannelsPopulate(Client)
    \/ ChannelsEntityChanged(Client)
    \/ \E c \in {d.id : d \in channels} \cup {NoChannel}, t \in TopicObjects :
        TopicsCreateCall(Client, c, t, Alice, NoToken)
    \/ \E g \in Slugs, t \in TopicObjects : AddTopicsCall(Client, g, t, Alice, NoToken)
    \/ AddTopicsFind(Client)
    \/ TopicsValidate(Client)
    \/ TopicsInsert(Client)
    \/ TopicsPopulate(Client)
    \/ TopicsEntityChanged(Client)
    \/ \E k \in Kinds, s \in Services : Deliver(k, s)

SpecTopics == InitChannels /\ [][NextTopics]_vars

(***************************************************************************)
(* Slug generation of channels.create and topics.create as a function of  *)
(* the title and of the random source.                                    *)
(***************************************************************************)
\* The titles slugs are made of.
Titles == {"General", "My Room"}

\* The integer parts of Math.random() * 36^6 that are tried: the least and the
\* greatest, the neighbours of 36^5 and of 2^31, and values in between.
RandomHis == {0, 1, 1295, 1296, 2557, 26061, 46027, 46028, 46655}
RandomLos == {0, 35, 1279, 1280, 5255, 46655}
RandomValues == {<<hi, lo>> : hi \in RandomHis, lo \in RandomLos}

\* entity.slug = slug(entity.title, { lower: true }) + "-" + suffix
NewSlug(title, v) == Slug(title) \o <<"-">> \o Suffix(v)

\* The slug of a title is computed with an outcome of the random source.
SlugCall(p, title, v) ==
    /\ Begin(p, [action |-> "slug", title |-> title, random |-> v], "slug")
    /\ UNCHANGED <<storeVars, cache, bus, deployed, clock, issued, seen>>

SlugResult(p) ==
    /\ pc[p] = "slug"
    /\ Finish(p, Ok(NewSlug(call[p].title, call[p].random)))
    /\ UNCHANGED <<storeVars, cache, bus, deployed, clock, issued, seen, call, hist,
                   overlapped>>

NextSlug ==
    \/ \E t \in Titles, v \in RandomValues : SlugCall(Client, t, v)
    \/ SlugResult(Client)

SpecSlug == InitChannels /\ [][NextSlug]_vars

(***************************************************************************)
(* Pagination of channels.list, one request at a time.                    *)
(***************************************************************************)
\* The limits and offsets callers send: none, zero, and small numbers.
Limits == {NoNumber, 0, 1, 2}
Offsets == {NoNumber, 0, 1, 3}

NextPages ==
    \/ \E c \in {o \in ChannelObjects : ValidChannel(o)} :
        ChannelsRoom /\ ChannelsCreateStart(Client, c, Alice, NoToken)
    \/ ChannelsValidate(Client)
    \/ ChannelsInsert(Client)
    \/ ChannelsPopulate(Client)
    \/ ChannelsEntityChanged(Client)
    \/ \E t \in ListTokens, l \in Limits, o \in Offsets :
        ChannelsListCall(Client, t, None, l, o)
    \/ ChannelsListCached(Client)
    \/ ChannelsListCreator(Client)
    \/ ChannelsListFind(Client)
    \/ ChannelsListCount(Client)
    \/ ChannelsListResult(Client)
    \/ \E k \in Kinds, s \in Services : Deliver(k, s)

SpecPages == InitChannels /\ [][NextPages]_vars

(***************************************************************************)
(* channels.join and channels.leave (src/services/user.service.ts), which  *)
(* call follows.add and follows.delete.                                    *)
(***************************************************************************)
MaxIds == 6

\* The model accepts a join or leave only while the storage has handed out
\* fewer than MaxIds identifiers.
IdsRoom == nextId < MaxIds

\* channels.join (follows.add) or channels.leave (follows.delete) is called
\* with { slug } by the logged-in user.
MemberCall(p, action, slug, user, token) ==
    /\ IdsRoom
    /\ user \in users
    /\ action \in {"channels.join", "channels.leave"}
    /\ Begin(p, [action |-> action, slug |-> slug, user |-> user, token |-> token,
                 found |-> {}, nested |-> None, before |-> follows],
             "channels.member.find")
    /\ UNCHANGED <<storeVars, cache, bus, deployed, clock, issued, seen>>

\* MemberFind without its test of the channel found: a slug that resolves to
\* no channel is answered as a success.
MemberFindNoReject(p) ==
    /\ pc[p] = "channels.member.find"
    /\ findBySlug(call[p].slug) = {}
    /\ Finish(p, Ok({}))
    /\ UNCHANGED <<storeVars, cache, bus, deployed, clock, issued, seen, overlapped,
                   call, hist>>

\* findBySlug(slug): none gives "Channel not found" 404; else
\* ctx.call("follows.add" or "follows.delete",
\*          { channel: channel._id.toString(), user: ctx.meta.user._id.toString() }):
\* the called handler runs in a slot of its own while the caller waits.
MemberFind(p) ==
    /\ pc[p] = "channels.member.find"
    /\ LET found == findBySlug(call[p].slug) IN
        IF found = {}
          THEN /\ Finish(p, ClientError("Channel not found", 404, {}))
               /\ UNCHANGED <<call, hist>>
          ELSE \E ch \in found, q \in Procs \ {p} :
                LET join == call[p].action = "channels.join" IN
                /\ Idle(q)
                /\ pc' = [pc EXCEPT ![p] = "channels.member.wait",
                                    ![q] = IF join THEN "add.find" ELSE "delete.find"]
                /\ call' = [call EXCEPT
                        ![p].found = found,
                        ![p].nested = q,
                        ![q] = [action |-> IF join THEN "follows.add" ELSE "follows.delete",
                                channel |-> ch.id, user |-> call[p].user.id,
                                item |-> {}, json |-> {},
                                pre |-> findByChannelAndUser(ch.id, call[p].user.id) # {}]]
                /\ res' = [res EXCEPT ![q] = NoRes]
                /\ hist' = [hist EXCEPT ![q] = NoHist]
    /\ UNCHANGED <<storeVars, cache, bus, deployed, clock, issued, seen, overlapped>>

\* The called action has settled: its rejection is the rejection of the
\* caller; otherwise .then(() => channel), transformDocuments with
\* populate ["creator"], transformResult.
MemberResult(p) ==
    /\ pc[p] = "channels.member.wait"
    /\ \E q \in Procs :
        /\ q = call[p].nested
        /\ Idle(q)
        /\ res[q] # NoRes
        /\ IF res[q].err # None
             THEN Finish(p, res[q])
             ELSE Finish(p, Ok([channel |->
                    {[d EXCEPT !.creator = ChannelCreator(d.creator)] :
                        d \in call[p].found}]))
    /\ UNCHANGED <<storeVars, cache, bus, deployed, clock, issued, seen, call, hist,
                   overlapped>>

NextMembers ==
    \/ \E c \in {o \in ChannelObjects : ValidChannel(o)} :
        ChannelsCreateCall(Client, c, Alice, NoToken)
    \/ ChannelsValidate(Client)
    \/ ChannelsInsert(Client)
    \/ ChannelsPopulate(Client)
    \/ ChannelsEntityChanged(Client)
    \/ \E a \in {"channels.join", "channels.leave"}, g \in Slugs, u \in users :
        MemberCall(Client, a, g, u, NoToken)
    \/ MemberFind(Client)
    \/ \E q \in Procs : AddFind(q)
    \/ \E q \in Procs : AddInsert(q)
    \/ \E q \in Procs : AddEntityChanged(q)
    \/ \E q \in Procs : DeleteFind(q)
    \/ \E q \in Procs : DeleteRemove(q)
    \/ \E q \in Procs : DeleteEntityChanged(q)
    \/ MemberResult(Client)
    \/ \E k \in Kinds, s \in Services : Deliver(k, s)

SpecMembers == InitChannels /\ [][NextMembers]_vars

(***************************************************************************)
(* The topics and messages services together: topics are created, then     *)
(* messages are posted to them and listed.                                 *)
(***************************************************************************)
InitMessages ==
    /\ users = {Alice, Bob}
    /\ channels = {}
    /\ topics = {}
    /\ messages = {}
    /\ follows = {}
    /\ nextId = 3
    /\ cache = {}
    /\ bus = {}
    /\ deployed = {"topics", "messages"}
    /\ clock = 0
    /\ issued = {}
    /\ seen = NoSeen
    /\ InitSlots

NextMessages ==
    \/ \E t \in TopicObjects : TopicsCreateCall(Client, NoChannel, t, Alice, NoToken)
    \/ TopicsValidate(Client)
    \/ TopicsInsert(Client)
    \/ TopicsPopulate(Client)
    \/ TopicsEntityChanged(Client)
    \/ \E t \in {d.id : d \in topics}, m \in MessageObjects, u \in users :
        MessagesCreateCall(Client, t, m, u, NoToken)
    \/ MessagesValidate(Client)
    \/ MessagesInsert(Client)
    \/ MessagesPopulate(Client)
    \/ MessagesEntityChanged(Client)
    \/ \E t \in ListTokens, c \in Creators, g \in Pages :
        MessagesListCall(Client, t, c, g[1], g[2])
    \/ MessagesListCached(Client)
    \/ MessagesListCreator(Client)
    \/ MessagesListFind(Client)
    \/ MessagesListCount(Client)
    \/ MessagesListResult(Client)
    \/ \E k \in Kinds, s \in Services : Deliver(k, s)

SpecMessages == InitMessages /\ [][NextMessages]_vars

(***************************************************************************)
(* The channels, topics and messages services answering one caller: every  *)
(* action whose response holds channels, topics or messages.               *)
(***************************************************************************)
InitResponses ==
    /\ users = {Alice, Bob}
    /\ channels = {}
    /\ topics = {}
    /\ messages = {}
    /\ follows = {}
    /\ nextId = 3
    /\ cache = {}
    /\ bus = {}
    /\ deployed = {"channels", "topics", "messages"}
    /\ clock = 0
    /\ issued = {}
    /\ seen = NoSeen
    /\ InitSlots

NextResponses ==
    \/ \E c \in {o \in ChannelObjects : ValidChannel(o)} :
        ChannelsCreateCall(Client, c, Alice, NoToken)
    \/ ChannelsValidate(Client)
    \/ ChannelsInsert(Client)
    \/ ChannelsPopulate(Client)
    \/ ChannelsEntityChanged(Client)
    \/ \E t \in ListTokens, c \in channels : ChannelsGetCall(Client, t, c.slug)
    \/ ChannelsGetCached(Client)
    \/ ChannelsGetFind(Client)
    \/ \E c \in {d.id : d \in channels} \cup {NoChannel}, t \in TopicObjects :
        TopicsCreateCall(Client, c, t, Alice, NoToken)
    \/ TopicsValidate(Client)
    \/ TopicsInsert(Client)
    \/ TopicsPopulate(Client)
    \/ TopicsEntityChanged(Client)
    \/ \E t \in ListTokens, c \in {d.channel : d \in topics} :
        TopicsListCall(Client, t, c, NoNumber, NoNumber)
    \/ TopicsListCached(Client)
    \/ TopicsListResult(Client)
    \/ \E t \in topics, m \in {o \in MessageObjects : ValidMessage(o)} :
        MessagesCreateCall(Client, t.id, m, Alice, NoToken)
    \/ MessagesValidate(Client)
    \/ MessagesInsert(Client)
    \/ MessagesPopulate(Client)
    \/ MessagesEntityChanged(Client)
    \/ \E k \in Kinds, s \in Services : Deliver(k, s)

SpecResponses == InitResponses /\ [][NextResponses]_vars

(***************************************************************************)
(* The steps of the create operations of channels and topics, with field   *)
(* objects that pass and that fail the entity validation.                  *)
(***************************************************************************)
\* The topic objects callers send: a valid one and one whose title is too short.
TopicInputs == TopicObjects \cup {[title |-> "ab", description |-> "hello"]}

NextOrder ==
    \/ \E c \in ChannelObjects : ChannelsCreateCall(Client, c, Alice, NoToken)
    \/ ChannelsValidate(Client)
    \/ ChannelsInsert(Client)
    \/ ChannelsPopulate(Client)
    \/ ChannelsPopulateFails(Client)
    \/ ChannelsEntityChanged(Client)
    \/ \E c \in {d.id : d \in channels} \cup {NoChannel}, t \in TopicInputs :
        TopicsCreateCall(Client, c, t, Alice, NoToken)
    \/ \E g \in Slugs, t \in TopicInputs : AddTopicsCall(Client, g, t, Alice, NoToken)
    \/ AddTopicsFind(Client)
    \/ TopicsValidate(Client)
    \/ TopicsInsert(Client)
    \/ TopicsPopulate(Client)
    \/ TopicsEntityChanged(Client)
    \/ \E k \in Kinds, s \in Services : Deliver(k, s)

SpecOrder == InitChannels /\ [][NextOrder]_vars

(***************************************************************************)
(* The users service beside the follows service: sessions are resolved     *)
(* while users are created, channels are joined and time passes.           *)
(***************************************************************************)
InitSessions ==
    /\ users = {}
    /\ channels = {}
    /\ topics = {}
    /\ messages = {}
    /\ follows = {}
    /\ nextId = 1
    /\ cache = {}
    /\ bus = {}
    /\ deployed = {"users", "follows"}
    /\ clock = 0
    /\ issued = {}
    /\ seen = NoSeen
    /\ InitSlots

NextSessions ==
    \/ \E u \in {Alice, Bob} : CreateCall(Client, u.username, u.email, NoToken)
    \/ CreateFindUsername(Client)
    \/ CreateFindEmail(Client)
    \/ CreateInsert(Client)
    \/ CreateEntityChanged(Client)
    \/ \E t \in issued : ResolveCall(Client, t)
    \/ ResolveVerify(Client)
    \/ ResolveGet(Client)
    \/ \E c \in ChannelIds : AddCall(Client, c, "u1")
    \/ AddFind(Client)
    \/ AddInsert(Client)
    \/ AddEntityChanged(Client)
    \/ \E k \in Kinds, s \in Services : Deliver(k, s)
    \/ \E m \in Moments : Tick(m)

SpecSessions == InitSessions /\ [][NextSessions]_vars

(***************************************************************************)
(* The create operations of channels, topics and messages called by two    *)
(* users with objects that carry a creator field of the client's choosing. *)
(***************************************************************************)
\* The value a client writes into the creator field of the object it sends.
ClientCreators == {Bob.id}
WithCreator(objects) ==
    objects \cup {Assign(o, [creator |-> c]) : o \in objects, c \in ClientCreators}

NextCreators ==
    \/ \E c \in WithCreator({o \in ChannelObjects : ValidChannel(o)}), u \in users :
        ChannelsCreateCall(Client, c, u, NoToken)
    \/ ChannelsValidate(Client)
    \/ ChannelsInsert(Client)
    \/ ChannelsPopulate(Client)
    \/ ChannelsEntityChanged(Client)
    \/ \E c \in {d.id : d \in channels} \cup {NoChannel}, t \in WithCreator(TopicObjects),
          u \in users :
        TopicsCreateCall(Client, c, t, u, NoToken)
    \/ TopicsValidate(Client)
    \/ TopicsInsert(Client)
    \/ TopicsPopulate(Client)
    \/ TopicsEntityChanged(Client)
    \/ \E t \in topics, m \in WithCreator({o \in MessageObjects : ValidMessage(o)}),
          u \in users :
        MessagesCreateCall(Client, t.id, m, u, NoToken)
    \/ MessagesValidate(Client)
    \/ MessagesInsert(Client)
    \/ MessagesPopulate(Client)
    \/ MessagesEntityChanged(Client)
    \/ \E k \in Kinds, s \in Services : Deliver(k, s)

SpecCreators == InitResponses /\ [][NextCreators]_vars

(***************************************************************************)
(* channels.update called with objects that carry a creator field: the     *)
(* schema of params.channel names title and description and lets every     *)
(* other property through.                                                 *)
(***************************************************************************)
OwnerObjects == UpdateObjects \cup {[creator |-> u.id] : u \in {Bob}}

NextOwners ==
    \/ \E c \in {o \in ChannelObjects : ValidChannel(o)}, u \in users :
        ChannelsRoom /\ ChannelsCreateStart(Client, c, u, NoToken)
    \/ ChannelsValidate(Client)
    \/ ChannelsInsert(Client)
    \/ ChannelsPopulate(Client)
    \/ ChannelsEntityChanged(Client)
    \/ \E g \in Slugs, o \in OwnerObjects, u \in users :
        ChannelsUpdateCall(Client, g, o, u, NoToken)
    \/ ChannelsUpdateFind(Client)
    \/ ChannelsUpdateSet(Client)
    \/ ChannelsUpdatePopulate(Client)
    \/ ChannelsUpdateEntityChanged(Client)
    \/ \E k \in Kinds, s \in Services : Deliver(k, s)

SpecOwners == InitChannels /\ [][NextOwners]_vars

(***************************************************************************)
(* Topics added to a channel by one caller while another reads the         *)
(* channel's topics under either token.                                    *)
(***************************************************************************)
Reader == "p2"

NextAppear ==
    \/ \E c \in {o \in ChannelObjects : ValidChannel(o)} :
        ChannelsCreateCall(Client, c, Alice, NoToken)
    \/ ChannelsValidate(Client)
    \/ ChannelsInsert(Client)
    \/ ChannelsPopulate(Client)
    \/ ChannelsEntityChanged(Client)
    \/ \E c \in channels, t \in TopicObjects :
        AddTopicsCall(Client, c.slug, t, Alice, NoToken)
    \/ AddTopicsFind(Client)
    \/ TopicsValidate(Client)
    \/ TopicsInsert(Client)
    \/ TopicsPopulate(Client)
    \/ TopicsEntityChanged(Client)
    \/ \E t \in KeyTokens, c \in channels : ChannelsTopicsCall(Reader, t, c.slug)
    \/ ChannelsTopicsCached(Reader)
    \/ ChannelsTopicsFind(Reader)
    \/ ChannelsTopicsList(Reader)
    \/ ChannelsTopicsStore(Reader)
    \/ \E k \in Kinds, s \in Services : Deliver(k, s)

SpecAppear == InitChannels /\ [][NextAppear]_vars

\* NextAppear with one request at a time.
NextAppearInTurn ==
    /\ NextAppear
    /\ overlapped' = FALSE

SpecAppearInTurn == InitChannels /\ [][NextAppearInTurn]_vars

\* ------------------------------------------------------------------ C11 ----

\* The call in slot p has persisted a write (an insert or a removal).
Persisted(p) == hist[p].inserted + hist[p].removed > 0

\* C11: a write operation never emits its kind-changed notification before its
\* write is persisted, and once the operation has ended, with a result or with
\* the failure of a later step such as resolving the creator, every write it
\* persisted has been followed by the notification.
C11_PersistedWriteIsNotified ==
    \A p \in Procs :
        /\ hist[p].emitted > 0 => Persisted(p)
        /\ (Idle(p) /\ res[p] # NoRes /\ Persisted(p)) => hist[p].emitted > 0

\* ------------------------------------------------------------------ C12 ----
\* Two requests of the channels service in flight at once: creates and lists of
\* one token, with the users service answering every populate call.

\* What channels.list returns when run on the present storage.
ChannelsList(creator, limit, offset) ==
    LET query == IF creator = None THEN {} ELSE {u.id : u \in UsersFind(creator)}
        docs == Matching(channels, query) IN
        [channels |-> Find(docs, Limit(limit), Offset(offset)),
         count |-> Cardinality(docs)]

InitRace ==
    /\ users = {Alice, Bob}
    /\ channels = {}
    /\ topics = {}
    /\ messages = {}
    /\ follows = {}
    /\ nextId = 3
    /\ cache = {}
    /\ bus = {}
    /\ deployed = {"channels"}
    /\ clock = 0
    /\ issued = {}
    /\ seen = NoSeen
    /\ InitSlots

NextRace ==
    \E p \in Procs :
        \/ \E c \in ChannelObjects : ChannelsCreateCall(p, c, Alice, NoToken)
        \/ ChannelsValidate(p)
        \/ ChannelsInsert(p)
        \/ ChannelsPopulate(p)
        \/ ChannelsEntityChanged(p)
        \/ \E t \in ListTokens, g \in Pages : ChannelsListCall(p, t, None, g[1], g[2])
        \/ ChannelsListCached(p)
        \/ ChannelsListCreator(p)
        \/ ChannelsListFind(p)
        \/ ChannelsListCount(p)
        \/ ChannelsListResult(p)

SpecRace == InitRace /\ [][NextRace]_vars

\* No request is in flight and every notification has been handled.
Quiescent == Busy = {} /\ bus = {}

\* C12: once the writes have completed, their notifications have been handled
\* and no request is in flight, every cached channels.list result equals what
\* a fresh channels.list with the same parameters returns, also when a list
\* that read the storage before a write stored its result after the flush.
C12_NoStaleEntryWhenQuiescent ==
    Quiescent =>
        \A e \in cache :
            (e.svc = "channels" /\ e.action = "list") =>
                e.val = ChannelsList(e.key[2], e.key[3], e.key[4])

\* ------------------------------------------------------------------ C13 ----

\* A call of a cached action has been answered by the cacher.
ServedFromCache(p) ==
    /\ Idle(p)
    /\ call[p].action \in CachedActions
    /\ res[p] # NoRes
    /\ call[p].cached

ChannelExists(id) == \E c \in channels : c.id = id

\* C14: topics.create of a valid topic with a channel identifier that no
\* stored channel has fails
\* with a 404 error and inserts no topic, and every stored topic references a
\* stored channel (channels are never removed).
C14_TopicsCreateChecksChannel ==
    /\ \A p \in Procs :
        (/\ Done(p, "topics.create")
         /\ ValidTopic(call[p].topic)
         /\ ~ChannelExists(call[p].channel)) =>
            /\ res[p].err # None
            /\ res[p].code = 404
            /\ hist[p].inserted = 0
    /\ \A t \in topics : ChannelExists(t.channel)

\* ------------------------------------------------------------------ C15 ----

\* The topic identifier names a stored topic.
TopicExists(id) == \E t \in topics : t.id = id

\* C15: messages.create of a valid message with a topic identifier that no
\* stored topic has fails
\* with a 404 error and inserts no message, and every stored message
\* references a stored topic (topics are never removed).
C15_MessagesCreateChecksTopic ==
    /\ \A p \in Procs :
        (/\ Done(p, "messages.create")
         /\ ValidMessage(call[p].message)
         /\ ~TopicExists(call[p].topic)) =>
            /\ res[p].err # None
            /\ res[p].code = 404
            /\ hist[p].inserted = 0
    /\ \A m \in messages : TopicExists(m.topic)

\* ------------------------------------------------------------------ C16 ----

\* The channels.update call in slot p has ended having left the stored
\* channels as they were and emitted no channels event.
UpdateRefused(p) ==
    /\ res[p].err # None
    /\ channels = call[p].before
    /\ hist[p].emitted = 0

\* C16: a channels.update whose slug resolves to no channel fails with 404; one
\* whose channel has another creator than the caller fails with an
\* authorization error (unauthorized or forbidden); in both cases the stored
\* channels are unchanged and no channels event is emitted; the stored
\* channels change only when the caller is the stored creator.
C16_UpdateOnlyByCreator ==
    \A p \in Procs :
        Done(p, "channels.update") =>
            /\ call[p].found = {} => (UpdateRefused(p) /\ res[p].code = 404)
            /\ \A ch \in call[p].found :
                ch.creator # call[p].user.id =>
                    (UpdateRefused(p) /\ res[p].code \in {401, 403})
            /\ channels # call[p].before =>
                \E ch \in call[p].found : ch.creator = call[p].user.id

\* ------------------------------------------------------------------ C17 ----

\* C17: whatever the accepted field object, a channels.update by the creator
\* leaves the slug of every channel as channels.create assigned it.
C17_SlugImmutable ==
    \A p \in Procs :
        Done(p, "channels.update") =>
            \A c \in channels :
                \E b \in call[p].before : b.id = c.id /\ b.slug = c.slug

\* ------------------------------------------------------------------ C18 ----

\* C18: no two stored channels have the same slug, whatever the titles and the
\* outcomes of the random suffix of the channels.create calls.
C18_SlugsAreUnique ==
    \A c, d \in channels : c.slug = d.slug => c.id = d.id

\* ------------------------------------------------------------------ C19 ----

\* C19: for every title and every value of the random source the slug is the
\* lower-cased hyphenated title, then "-", then a suffix of exactly 6
\* characters, each a base-36 digit (0-9, a-z).
C19_SlugHasSixBase36Characters ==
    \A p \in Procs :
        Done(p, "slug") =>
            LET made == res[p].val
                prefix == Slug(call[p].title) \o <<"-">> IN
                /\ Len(made) = Len(prefix) + 6
                /\ SubSeq(made, 1, Len(prefix)) = prefix
                /\ \A i \in Len(prefix) + 1..Len(made) :
                    \E d \in DOMAIN Digits36 : made[i] = Digits36[d]

\* ------------------------------------------------------------------ C20 ----

\* C20: a channels.list with limit L >= 0 and offset O >= 0 (an absent limit
\* meaning 20, an absent offset 0), run with no write in flight, returns a page
\* of min(L, total - O) channels, none when that is negative, and a count equal
\* to the number of channels matching the filter.
C20_PageLengthAndCount ==
    \A p \in Procs :
        (Done(p, "channels.list") /\ Succeeded(p)) =>
            LET total == Cardinality(Matching(channels, call[p].query))
                L == IF call[p].limit = NoNumber THEN DefaultLimit ELSE call[p].limit
                O == IF call[p].offset = NoNumber THEN 0 ELSE call[p].offset
                length == IF total - O < 0 THEN 0 ELSE Min(L, total - O) IN
                /\ Len(res[p].val.channels) = length
                /\ res[p].val.count = total

\* ------------------------------------------------------------------ C21 ----

\* The Follow records of a (channel, user) pair among the given records.
Pair(records, channel, user) ==
    {f \in records : f.channel = channel /\ f.user = user}

\* C21: a channels.join or channels.leave on a slug that resolves to no channel
\* fails with 404 and leaves the Follow records as they were.  A join by u on
\* a channel c that u has not joined adds exactly one record (c, u); a join on
\* a joined channel fails with "Channel has already joined" and leaves the one
\* record; a leave by u on a joined channel succeeds and leaves no record of
\* (c, u); no call touches the record of another pair.
C21_JoinAndLeave ==
    \A p \in Procs :
        (Done(p, "channels.join") \/ Done(p, "channels.leave")) =>
            /\ call[p].found = {} =>
                /\ res[p].err # None
                /\ res[p].code = 404
                /\ follows = call[p].before
            /\ \A ch \in call[p].found :
                LET u == call[p].user.id
                    was == Pair(call[p].before, ch.id, u)
                    now == Pair(follows, ch.id, u) IN
                /\ follows \ now = call[p].before \ was
                /\ (call[p].action = "channels.join" /\ was = {}) =>
                    (Succeeded(p) /\ Cardinality(now) = 1)
                /\ (call[p].action = "channels.join" /\ was # {}) =>
                    (Failed(p, "Channel has already joined") /\ now = was
                     /\ Cardinality(now) = 1)
                /\ (call[p].action = "channels.leave" /\ was # {}) =>
                    (Succeeded(p) /\ now = {})
                /\ (call[p].action = "channels.leave" /\ was = {}) =>
                    (res[p].err # None /\ now = {})

\* C21 witness: a second join by a user on a channel the user had joined was
\* rejected and the one record of the pair is still there.
C21_Witness ==
    \E p \in Procs :
        /\ Done(p, "channels.join")
        /\ Failed(p, "Channel has already joined")
        /\ \E ch \in call[p].found :
            /\ Cardinality(Pair(call[p].before, ch.id, call[p].user.id)) = 1
            /\ Cardinality(Pair(follows, ch.id, call[p].user.id)) = 1

\* ------------------------------------------------------------------ C22 ----

\* C22: messages.create with the identifier of a stored topic and a message
\* object that carries only a body succeeds: it persists exactly one message,
\* which records the topic and the caller as creator, and returns it in an
\* envelope keyed "message".
C22_MessagesCreateWithBody ==
    \A p \in Procs :
        (/\ Done(p, "messages.create")
         /\ TopicExists(call[p].topic)
         /\ call[p].message = [body |-> "hello", title |-> None, description |-> None]) =>
            /\ Succeeded(p)
            /\ hist[p].inserted = 1
            /\ \E m \in messages :
                /\ m.topic = call[p].topic
                /\ m.creator = call[p].user.id
            /\ DOMAIN res[p].val = {"message"}

\* ------------------------------------------------------------------ C23 ----

\* The creator objects inside the response of the call in slot p.
CreatorsOf(p) ==
    LET a == call[p].action
        v == res[p].val IN
    IF a \in {"channels.create", "channels.get"}
      THEN UNION {d.creator : d \in v.channel}
    ELSE IF a = "topics.create" THEN UNION {d.creator : d \in v.topic}
    ELSE IF a = "messages.create" THEN UNION {d.creator : d \in v.article}
    ELSE IF a = "topics.list" THEN UNION {v.topics[i].creator : i \in DOMAIN v.topics}
    ELSE {}

C24_ListCreatorNotFound ==
    \A p \in Procs :
        (/\ Done(p, "channels.list") \/ Done(p, "messages.list")
         /\ call[p].creator # None
         /\ UsersFind(call[p].creator) = {}) =>
            /\ res[p].err # None
            /\ res[p].code = 404
            /\ call[p].rows = {}
            /\ call[p].count = {}

\* ------------------------------------------------------------------ C25 ----

\* C25: a channels.create or messages.create that has failed, at whichever
\* step, has left nothing persisted: the document it inserted, if any, is no
\* longer in the collection.
C25_NoPartialCommit ==
    \A p \in Procs :
        /\ (Done(p, "channels.create") /\ ~Succeeded(p)) =>
            call[p].doc \cap channels = {}
        /\ (Done(p, "messages.create") /\ ~Succeeded(p)) =>
            call[p].doc \cap messages = {}

\* ------------------------------------------------------------------ C26 ----

\* The keys of the envelope the claim gives to each action's response.
Envelope(action) ==
    IF action \in {"channels.create", "channels.get", "channels.update"}
      THEN {"channel"}
    ELSE IF action = "channels.list" THEN {"channels", "count"}
    ELSE IF action = "topics.create" THEN {"topic"}
    ELSE IF action = "topics.list" THEN {"topics", "topicCount"}
    ELSE IF action = "messages.create" THEN {"message"}
    ELSE {"messages", "count"}

\* C26: every successful response of a channels, topics or messages action
\* is a record whose keys are those of its kind: channel, or channels and
\* count; topic, or topics and topicCount; message, or messages and count.
C26_Envelopes ==
    \A p \in Procs :
        (/\ Idle(p) /\ res[p] # NoRes /\ Succeeded(p)
         /\ call[p].action \in {"channels.create", "channels.get", "channels.update",
                                "channels.list", "topics.create", "topics.list",
                                "messages.create", "messages.list"}) =>
            DOMAIN res[p].val = Envelope(call[p].action)

\* ------------------------------------------------------------------ C27 ----

\* The create operations of channels and topics.
Creates == {"channels.create", "topics.create", "channels.addTopics"}

\* Where the create in slot p stands agrees with what it has done so far:
\* nothing is inserted before the insert step, the creator is resolved only
\* after the insert, the event is published only after the creator was
\* resolved, and a response is returned only after the event.
StepsInOrder(p) ==
    /\ pc[p] \in {"channels.validate", "topics.validate", "channels.addTopics.find",
                  "channels.insert", "topics.insert"} =>
        (hist[p].inserted = 0 /\ hist[p].emitted = 0 /\ call[p].doc = {})
    /\ pc[p] \in {"channels.populate", "topics.populate"} =>
        (hist[p].inserted = 1 /\ hist[p].emitted = 0 /\ call[p].json = {})
    /\ pc[p] \in {"channels.changed", "topics.changed"} =>
        (hist[p].inserted = 1 /\ hist[p].emitted = 0 /\ call[p].json # {})
    /\ (Idle(p) /\ res[p] # NoRes /\ Succeeded(p)) =>
        (hist[p].inserted = 1 /\ hist[p].emitted = 1 /\ call[p].json # {})

\* The steps a create takes one after the other.
StepEdges ==
    {<<"idle", "channels.validate">>, <<"channels.validate", "channels.insert">>,
     <<"channels.insert", "channels.populate">>,
     <<"channels.populate", "channels.changed">>,
     <<"idle", "topics.validate">>, <<"idle", "channels.addTopics.find">>,
     <<"channels.addTopics.find", "topics.validate">>,
     <<"topics.validate", "topics.insert">>, <<"topics.insert", "topics.populate">>,
     <<"topics.populate", "topics.changed">>}
    \cup {<<at, "idle">> : at \in {"channels.validate", "channels.populate",
                                   "channels.changed", "channels.addTopics.find",
                                   "topics.validate", "topics.changed"}}

C28_ListCreatorsPopulated ==
    \A p \in Procs :
        (/\ Done(p, "channels.list")
         /\ Succeeded(p)
         /\ ~call[p].cached
         /\ Len(res[p].val.channels) > 0) =>
            /\ "creator" \in call[p].populated
            /\ \A i \in DOMAIN res[p].val.channels :
                \E c \in channels :
                    res[p].val.channels[i] = Populate(c, {"creator"})

\* ------------------------------------------------------------------ C29 ----

\* The results of users.resolveToken the cacher holds.
ResolveEntries(c) == {e \in c : e.svc = "users" /\ e.action = "resolveToken"}

\* A step in which users.resolveToken answers from the cache answers from an
\* entry stored at most one hour earlier.
ServedWithinTheHour ==
    \A p \in Procs :
        (pc[p] = "resolve.verify" /\ call'[p].cached) =>
            \E e \in ResolveEntries(cache) :
                /\ e.key = call[p].token
                /\ res'[p].val = e.val
                /\ clock <= e.at + ResolveTtl

\* A step in which the users service handles a notification of a kind its
\* events name: its own broadcast, or one delivered from the bus.
UsersNotified ==
    \/ \E p \in Procs : call[p].action = "users.create"
                        /\ hist'[p].emitted > hist[p].emitted
    \/ \E k \in Handles("users") : <<k, "users">> \in bus /\ <<k, "users">> \notin bus'

\* C29 as stated: a cached users.resolveToken result is served for at most
\* one hour, and an entry leaves the cache only when its hour has run out.
C29_RemovedOnlyByExpiry ==
    [][/\ ServedWithinTheHour
       /\ \A e \in ResolveEntries(cache) :
            e \notin cache' => clock' > e.at + ResolveTtl]_vars

\* C29, amended: a cached users.resolveToken result is served for at most one
\* hour, and an entry leaves the cache earlier only when the users service
\* handles a kind-changed notification (users, channels, topics, follows) and
\* flushes its whole namespace; nothing removes the entry of a single token.
C29_RemovedByExpiryOrFlush ==
    [][/\ ServedWithinTheHour
       /\ \A e \in ResolveEntries(cache) :
            e \notin cache' =>
                \/ clock' > e.at + ResolveTtl
                \/ /\ UsersNotified
                   /\ \A f \in cache' : f.svc # "users"]_vars

\* C29 witness: users.resolveToken has answered from an entry that was stored
\* before the call was made.
C29_Witness ==
    \E p \in Procs :
        /\ Done(p, "users.resolveToken")
        /\ call[p].cached
        /\ \E e \in ResolveEntries(cache) :
            /\ e.key = call[p].token
            /\ e.at < call[p].at

\* ------------------------------------------------------------------ C30 ----

\* C30: users.create probes the username first: a call whose username and
\* email were both in use when it was made is rejected naming field
\* "username" and has inserted nothing; the email probe is issued only after
\* the username probe found nothing, and the insert only after the email
\* probe found nothing.
C30_UsernameProbedFirst ==
    /\ [](\A p \in Procs :
            (Done(p, "users.create") /\ call[p].preUsername /\ call[p].preEmail) =>
                (res[p] = UsernameExists /\ hist[p].inserted = 0))
    /\ [][\A p \in Procs :
            /\ (pc'[p] = "create.email" /\ pc[p] # "create.email") =>
                /\ pc[p] = "create.username"
                /\ ~\E u \in users : u.username = call[p].username
            /\ (pc'[p] = "create.insert" /\ pc[p] # "create.insert") =>
                /\ pc[p] = "create.email"
                /\ ~\E u \in users : u.email = call[p].email]_vars

\* C30 witness: a users.create whose username and email were both in use has
\* been rejected naming the username.
C30_Witness ==
    \E p \in Procs :
        /\ Done(p, "users.create")
        /\ call[p].preUsername
        /\ call[p].preEmail
        /\ res[p] = UsernameExists

\* ------------------------------------------------------------------ C31 ----

\* The other pairs' records are the same before and after the step.
OtherPairsUnchanged(c, u) ==
    follows' \ Pair(follows', c, u) = follows \ Pair(follows, c, u)

\* C31: the insert of a follows.add on (c, u) finds the pair absent and
\* leaves it active, with one record; the removal of a follows.delete finds
\* the pair active and leaves it absent; both leave the records of every
\* other pair as they were, and no other step changes a Follow record.
C31_PairTransitions ==
    [][/\ \A p \in Procs :
            /\ (pc[p] = "add.insert" /\ pc'[p] = "add.changed") =>
                /\ OtherPairsUnchanged(call[p].channel, call[p].user)
                /\ Pair(follows, call[p].channel, call[p].user) = {}
                /\ Cardinality(Pair(follows', call[p].channel, call[p].user)) = 1
            /\ (pc[p] = "delete.remove" /\ pc'[p] = "delete.changed") =>
                /\ OtherPairsUnchanged(call[p].channel, call[p].user)
                /\ Pair(follows, call[p].channel, call[p].user) # {}
                /\ Pair(follows', call[p].channel, call[p].user) = {}
       /\ follows' # follows =>
            \E p \in Procs : pc[p] \in {"add.insert", "delete.remove"} /\ pc'[p] # pc[p]]_vars

\* ------------------------------------------------------------------ C32 ----

\* The service whose entityChanged runs in the step the slot is about to take.
Emitter(at) ==
    CASE at = "channels.changed" -> "channels"
      [] at \in {"topics.changed"} -> "topics"
      [] at = "messages.changed" -> "messages"
      [] at \in {"add.changed", "delete.changed"} -> "follows"
      [] at = "create.changed" -> "users"
      [] OTHER -> None

\* The step removes no cache entry of a service other than svc, adds none,
\* and leaves the stored entities as they were.
OnlyOwnNamespace(svc) ==
    /\ cache' \subseteq cache
    /\ {e \in cache' : e.svc # svc} = {e \in cache : e.svc # svc}
    /\ storeVars' = storeVars

\* C32: a step in which a service handles a kind-changed notification, one
\* delivered from the bus or its own broadcast, removes cache entries of that
\* service's namespace only and changes no stored entity.
C32_FlushOwnNamespaceOnly ==
    [][/\ \A k \in Kinds, s \in Services :
            (<<k, s>> \in bus /\ <<k, s>> \notin bus') => OnlyOwnNamespace(s)
       /\ \A p \in Procs :
            hist'[p].emitted > hist[p].emitted => OnlyOwnNamespace(Emitter(pc[p]))]_vars

\* C32 witness: the topics service has handled the channels notification and
\* flushed its cached topics.list, and the channels.topics result that was
\* stored with it in the channels namespace is still held.
C32_Witness ==
    /\ \E e \in cache : e.svc = "channels" /\ e.action = "topics"
    /\ \A e \in cache : e.svc # "topics"
    /\ channels # {}
    /\ <<"channels", "topics">> \notin bus

\* ------------------------------------------------------------------ C33 ----

\* The documents of a collection whose stored creator is the user named U.
CreatedBy(docs, U) == {d \in docs : \E u \in users : u.username = U /\ d.creator = u.id}

C34_ListOrderPreserved ==
    \A p \in Procs :
        (Done(p, "channels.list") /\ Succeeded(p)) =>
            LET items == res[p].val.channels IN
            /\ \A i \in DOMAIN items : \A j \in DOMAIN items :
                i < j => items[i].id > items[j].id
            /\ ~call[p].cached =>
                \A rows \in call[p].rows :
                    /\ Len(items) = Len(rows)
                    /\ \A i \in DOMAIN rows : items[i].id = rows[i].id

\* C34 witness: a channels.list has returned two channels, the newer first.
C34_Witness ==
    \E p \in Procs :
        /\ Done(p, "channels.list")
        /\ Succeeded(p)
        /\ ~call[p].cached
        /\ Len(res[p].val.channels) = 2
        /\ res[p].val.channels[1].id > res[p].val.channels[2].id


\* C35: the creator stored on a channel, a topic or a message is the identity
\* of the caller that created it: the insert step of a create stores exactly
\* one new document, whose creator is the caller's id whatever creator the
\* object sent by the client carried, and nothing else stores a document.
InsertStep(p) ==
    /\ pc[p] \in {"channels.insert", "topics.insert", "messages.insert"}
    /\ pc'[p] # pc[p]
StoredBy(p, before, after) ==
    /\ Cardinality(after \ before) = 1
    /\ before \subseteq after
    /\ \A d \in after \ before : d.creator = call[p].user.id
C35_CreatorIsCaller ==
    [][/\ \A p \in Procs :
            /\ (pc[p] = "channels.insert" /\ pc'[p] # pc[p]) =>
                    StoredBy(p, channels, channels')
            /\ (pc[p] = "topics.insert" /\ pc'[p] # pc[p]) =>
                    StoredBy(p, topics, topics')
            /\ (pc[p] = "messages.insert" /\ pc'[p] # pc[p]) =>
                    StoredBy(p, messages, messages')
       /\ <<channels, topics, messages>>' # <<channels, topics, messages>> =>
            \E p \in Procs : InsertStep(p)]_vars
C35_Witness ==
    \E p \in Procs :
        /\ pc[p] = "channels.populate"
        /\ "creator" \in DOMAIN call[p].channel
        /\ call[p].doc # {}
        /\ call[p].doc \subseteq channels
        /\ \A d \in call[p].doc :
            d.creator = call[p].user.id /\ d.creator # call[p].channel.creator


\* C36: no step changes the creator of a stored channel: a channel that is
\* stored before and after a step (same id) has the same creator, so every
\* channel keeps the creator recorded at its creation through any sequence of
\* channels.update calls.
C36_CreatorImmutable ==
    [][\A c \in channels : \A d \in channels' :
            d.id = c.id => d.creator = c.creator]_vars


\* C37: of the follows.delete calls of one pair that ran against the same
\* existing record (each found it), at most one succeeds and emits a change
\* event; every other one fails with "Channel has not joined yet".
SameRecord(p, q) ==
    /\ p # q
    /\ Done(p, "follows.delete")
    /\ Done(q, "follows.delete")
    /\ call[p].channel = call[q].channel
    /\ call[p].user = call[q].user
    /\ call[p].item # {}
    /\ call[p].item = call[q].item
C37_OneDeleteSucceeds ==
    \A p \in Procs : \A q \in Procs :
        (SameRecord(p, q) /\ Succeeded(p)) =>
            /\ Failed(q, "Channel has not joined yet")
            /\ hist[q].emitted = 0


\* C38: in every channels.list response, also one computed while channels are
\* being created, the number of items of the page is at most the returned
\* count minus the offset, or zero if that difference is negative.
C38_PageWithinCount ==
    \A p \in Procs :
        (Done(p, "channels.list") /\ Succeeded(p)) =>
            LET rest == res[p].val.count - Offset(call[p].offset) IN
            Len(res[p].val.channels) <= IF rest < 0 THEN 0 ELSE rest


\* C39: a channels.topics call for slug S that starts after a topic was added
\* to the channel of S, its create completed and its notification handled,
\* answers, under either token, with a list that contains the topic and with
\* a topicCount that counts it, never with a list cached before.
TopicsOf(ts, slug) == {t \in ts : \E c \in findBySlug(slug) : t.channel = c.id}
C39_AddedTopicAppears ==
    \A p \in Procs :
        (Done(p, "channels.topics") /\ Succeeded(p)) =>
            LET known == TopicsOf(call[p].settled, call[p].params.slug)
                listed == {res[p].val.topics[i].id : i \in DOMAIN res[p].val.topics} IN
            /\ {t.id : t \in known} \subseteq listed
            /\ res[p].val.topicCount >= Cardinality(known)

====
